---- MODULE Spec2Model ----
(***************************************************************************)
(* A model of the grammar interpreter of textmate_grammar/parser.py: the   *)
(* _parse methods of TokenParser, MatchParser, PatternsParser and          *)
(* BeginEndParser, run one call at a time on a small text buffer.  The     *)
(* results of the regex searches and of the child parsers are drawn from   *)
(* the sets the ContentHandler contract allows.                            *)
(*                                                                         *)
(* Spec            one _parse call of one parser                           *)
(* SpecAgain       BeginEndParser._parse, called again after it returned   *)
(* SpecInitialize  GrammarParser.initialize on one grammar dict            *)
(* SpecRepository  initialize_repository, the walk over the parser tree    *)
(* SpecRepositoryFair  the same walk, every enabled statement run          *)
(* SpecShared      one _parse call beside another call on the same parser  *)
(* SpecReplay      BeginEndParser._parse repeated on the same text         *)
(*                                                                         *)
(* Of sphinx_matlab/grammar: the capture groups of GrammarParser.search    *)
(* (parser.py) and the dictionary form of the elements (elements.py).      *)
(*                                                                         *)
(* SpecSearch      one GrammarParser.search call on a stream               *)
(* SpecElements    to_dict and print called on an element tree             *)
(* SpecSpan        the look-behind loop of search on a stream of text      *)
(* SpecStore       parsers constructed and includes resolved at parse time *)
(* SpecLoops       the two pattern loops of parse, run side by side        *)
(***************************************************************************)
EXTENDS Integers, Sequences, FiniteSets, TLC

\* ------------------------------------------------------------------ bounds
\* The number of lines of the text buffer.
MaxLines == 2
\* The number of iterations of a parser's while loop that are followed.
MaxIter == 2
\* The number of _parse calls made on one BeginEndParser (SpecAgain).
MaxInvocations == 2
\* The number of initialize_repository calls made on the root (SpecRepository).
MaxRounds == 2
\* The length of the patterns list of a plain PatternsParser of the repository.
MaxPatterns == 2
\* The length of a capture map, and of the patterns list of a begin parser.
MaxInner == 1
\* The depth of the recursion of initialize_repository that is followed.
MaxDepth == 4
\* The last position of the stream GrammarParser.search reads (SpecSearch).
MaxStream == 2
\* The highest capture group of the regex of a search (SpecSearch).
MaxGroups == 2
\* The longest stream and the largest readSize of the search of a span.
MaxText == 6
MaxRead == 2
\* The number of GrammarParser objects constructed and of parse calls made
\* while the parser store is watched.
MaxParsers == 3
MaxParses == 2
\* The end of the stream the two pattern loops of sphinx_matlab work on.
MaxPos == 3
\* REGEX_LOOKBEHIND_MAX and REGEX_LOOKBEHIND_STEP of sphinx_matlab (lines 11-12).
REGEX_LOOKBEHIND_MAX == 100
REGEX_LOOKBEHIND_STEP == 5

\* ------------------------------------------------------------- the buffer
NL == "\n"

\* The lines a buffer is made of; every line ends with its newline.
LineSet == { <<"a", NL>>, <<NL>> }

Texts == UNION { [1..n -> LineSet] : n \in 1..MaxLines }

\* Python's None, for a span, a position or a boundary.
None == <<>>

VARIABLES
    lines,              \* handler.lines: the text, a sequence of lines
    anchor,             \* handler.anchor
    kind,               \* the class of the parser whose _parse runs
    token,              \* self.token
    between_content,    \* self.between_content
    self_apl,           \* self.apply_end_pattern_last
    starting,           \* the argument starting
    boundary,           \* the argument boundary (None: not given)
    allow_leading_all,  \* the argument allow_leading_all
    find_one,           \* the argument find_one
    injections,         \* the argument injections
    pc,                 \* the position in the running _parse
    patterns,           \* the local list patterns
    idx,                \* the index of the for loop over patterns
    current,            \* the local current
    parsed,             \* the local parsed
    elements,           \* the local elements (PatternsParser)
    capture_elements,   \* the local capture_elements
    capture_span,       \* the local capture_span
    apl,                \* the local apply_end_pattern_last of one iteration
    begin_span,         \* the local begin_span
    begin_elements,     \* the local begin_elements
    end_span,           \* the local end_span
    end_elements,       \* the local end_elements
    mid_elements,       \* the local mid_elements
    first_run,          \* the local first_run
    closing,            \* the local closing
    ret,                \* the value _parse returned
    warnings,           \* the LOGGER.warning calls made, by kind
    calls,              \* history: the child _parse calls of this iteration
    passStart,          \* history: current when this iteration began
    iter,               \* history: the iterations of the while loop so far
    accepted,           \* history: the spans of the accepted children
    branch,             \* history: the branch of the last decision taken
    self_patterns,      \* self.patterns of the parser whose _parse runs
    invocation,         \* history: the _parse calls made on the parser so far
    other,              \* where another _parse call on the same parser stands
    replay,             \* the searches answer a repeated call as they answered the first
    tape,               \* history: the searches of the first call and their answers
    cursor,             \* history: the next entry of tape a repeated call reads
    first,              \* history: what the first call returned
    stream,             \* stream.tell() of the stream a search reads
    initPos,            \* the local initPos of search
    parsers,            \* the argument parsers: the group ids in the order of the dict
    matching,           \* the local matching
    groupIdx,           \* the place of the for loop in parsers.items()
    search_elements,    \* the local elements of search
    search_ret,         \* the value search returned
    spc,                \* where the search call stands
    outcome,            \* history: the return statement that ended the search
    element,            \* an element object with its captures, begin and end lists
    out_dict,           \* the value to_dict returned
    to_dict_args,       \* history: the arguments of the last to_dict call
    before,             \* history: the element when the last call was made
    grammar,            \* the keys of the grammar dict given to initialize
    result,             \* what GrammarParser.initialize returned
    repo,               \* the parser objects: kind, initialized, patterns, capture maps
    language,           \* self.language of every parser
    stack,              \* the running initialize_repository calls, innermost last
    error,              \* the exception that ended the walk or the _parse call
    entered,            \* history: the initialize_repository calls per parser
    round,              \* history: the calls made on the root so far
    snapshot,           \* history: repo when the last call on the root was made
    text,               \* the characters of the StringIO the reference search reads
    regex,              \* the pattern given to the reference search
    readSize,           \* the argument readSize of search, 0 for None
    lookbehind,         \* the local lookbehind of search
    streamCanLookbehind,\* the local streamCanLookbehind of search
    instances,          \* the GrammarParser objects constructed so far
    PARSERSTORE,        \* the class attribute GrammarParser.PARSERSTORE
    resolved,           \* history: what get_parser returned at each parse
    loopBE,             \* the locals of the pattern loop of the begin/end branch
    loopPP              \* the locals of the pattern loop of the patterns branch

\* GrammarParser.search of sphinx_matlab.
searchVars == <<stream, initPos, parsers, matching, groupIdx, search_elements,
                search_ret, spc, outcome>>
\* The elements of sphinx_matlab.
elemVars == <<element, out_dict, to_dict_args, before>>
\* The look-behind of search, the parser store and the two pattern loops of
\* sphinx_matlab.
refVars == <<text, regex, readSize, lookbehind, streamCanLookbehind, instances,
            PARSERSTORE, resolved, loopBE, loopPP>>
\* The parser tree and the walk over it.
repoVars == <<repo, language, stack, error, entered, round, snapshot>>
\* GrammarParser.initialize.
initVars == <<grammar, result>>
\* What no step of a _parse call changes: the text, the parser and its tree,
\* the arguments.
cfgVars == <<lines, kind, token, between_content, self_apl, starting,
             allow_leading_all, find_one, injections, invocation, other,
             replay, first, initVars, repoVars, searchVars, elemVars, refVars>>
\* The record of the searches made.
beVars == <<capture_elements, capture_span, apl, begin_span, begin_elements,
            end_span, end_elements, mid_elements, first_run, closing>>
vars == <<lines, anchor, kind, token, between_content, self_apl, starting,
          boundary, allow_leading_all, find_one, injections, pc, patterns,
          idx, current, parsed, elements, capture_elements, capture_span, apl,
          begin_span, begin_elements, end_span, end_elements, mid_elements,
          first_run, closing, ret, warnings, calls, passStart, iter, accepted,
          branch, self_patterns, invocation, other, replay, tape, cursor,
          first, initVars, repoVars, searchVars, elemVars, refVars>>

\* ------------------------------------------------ positions (POS) and text
\* The lexicographic order of Python tuples (line, column).
PosLT(p, q) == p[1] < q[1] \/ (p[1] = q[1] /\ p[2] < q[2])
PosLE(p, q) == p = q \/ PosLT(p, q)

line_lengths(l) == Len(lines[l + 1])

\* The positions of the buffer: column len(line) is the place after the newline.
Positions ==
    UNION { { <<l, c>> : c \in 0..line_lengths(l) } : l \in 0..(Len(lines) - 1) }

\* handler.next(pos): one character on, from the end of a line to the next line.
handler_next(p) ==
    IF p[1] < Len(lines) /\ p[2] < line_lengths(p[1])
    THEN <<p[1], p[2] + 1>>
    ELSE <<p[1] + 1, 0>>

\* handler.prev(pos): one character back, from the start of a line to the end
\* of the line before.
handler_prev(p) ==
    IF p[2] > 0 THEN <<p[1], p[2] - 1>>
    ELSE IF p[1] = 0 THEN <<0, 0>>
    ELSE <<p[1] - 1, line_lengths(p[1] - 1)>>

\* handler.read_length(pos, 1, skip_newline=False): the character at pos.
read_length(p) ==
    IF p[1] >= Len(lines) THEN ""
    ELSE IF p[2] < line_lengths(p[1]) THEN lines[p[1] + 1][p[2] + 1]
    ELSE IF p[1] + 1 < Len(lines) THEN lines[p[1] + 2][1]
    ELSE ""

\* handler.read_line(pos): the rest of the line at pos.
read_line(p) ==
    IF p[1] >= Len(lines) THEN <<>>
    ELSE SubSeq(lines[p[1] + 1], p[2] + 1, line_lengths(p[1]))

\* The characters of the first n lines, one after the other.
RECURSIVE Flat(_)
Flat(n) == IF n = 0 THEN <<>> ELSE Flat(n - 1) \o lines[n]

\* The number of characters before the position p.
Offset(p) == Len(Flat(p[1])) + p[2]

\* handler.read_pos(start, end): the text from start up to end.
read_pos(s, e) == SubSeq(Flat(Len(lines)), Offset(s) + 1, Offset(e))

\* str.isspace() taken to hold of no string.
isspace_Never(s) == FALSE

\* str.isspace(): a non-empty string of whitespace only.
isspace(s) == s /= <<>> /\ \A i \in 1..Len(s) : s[i] \in {" ", NL}

\* The end of the buffer, the default of boundary.
EndOfText == <<Len(lines) - 1, line_lengths(Len(lines) - 1)>>

\* ---------------------------------------------------------------- elements
\* A ContentElement or ContentBlockElement: its token, its content, the span
\* of its indices, its captures and (for a block) its begin and end lists.
Element(tok, cont, s, e, caps, b, en) ==
    [token |-> tok, content |-> cont, span |-> <<s, e>>, captures |-> caps,
     begin |-> b, end |-> en]

\* The element a child parser or a capture group emits for a span.
Leaf(tok, sp) == Element(tok, read_pos(sp[1], sp[2]), sp[1], sp[2], <<>>, <<>>, <<>>)

\* ------------------------------------------- the searches and the children
\* The positions where handler.search may find the start of a match: with
\* allow_leading_all = false at starting or after whitespace only on the same
\* line, with allow_leading_all = true anywhere up to boundary.
\* The end of a line and the start of the next line are the same place.
MatchStarts(from, bnd, la) ==
    { s \in Positions :
        /\ PosLE(from, s) /\ PosLE(s, bnd)
        /\ \/ la
           \/ /\ s[1] = from[1]
              /\ \A c \in from[2]..(s[2] - 1) : isspace(<<lines[s[1] + 1][c + 1]>>)
           \/ /\ s[1] = from[1] + 1
              /\ from[2] = line_lengths(from[1])
              /\ \A c \in 0..(s[2] - 1) : isspace(<<lines[s[1] + 1][c + 1]>>) }

\* The spans handler.search may return for one regex: a match lies in one line.
SearchSpans(from, bnd, la) ==
    UNION { { <<s, e>> : e \in { q \in Positions :
                                   q[1] = s[1] /\ PosLE(s, q) /\ PosLE(q, bnd) } } :
            s \in MatchStarts(from, bnd, la) }

\* The spans a child parser may return: it starts where a search may start and
\* may run over several lines.
ChildSpans(from, bnd, la) ==
    UNION { { <<s, e>> : e \in { q \in Positions : PosLE(s, q) /\ PosLE(q, bnd) } } :
            s \in MatchStarts(from, bnd, la) }

NoMatch == [parsed |-> FALSE, elements |-> <<>>, span |-> None]

\* GrammarParser.match_and_capture: (span, matching.group(), [captures]) of a
\* match, (None, "", []) of none.  The list holds the one Captures object of
\* the match, here an element with the token tok.
match_and_capture(from, bnd, la, tok) ==
    { [parsed |-> FALSE, elements |-> <<>>, span |-> None, content |-> <<>>] } \cup
    { [parsed |-> TRUE, elements |-> <<Leaf(tok, sp)>>, span |-> sp,
       content |-> read_pos(sp[1], sp[2])] :
        sp \in SearchSpans(from, bnd, la) }

\* What parser._parse(handler, current, boundary, allow_leading_all) of a child
\* may return: no match, or a span with the elements of the child.  Every
\* _parse that returns parsed = True returns a list that is not empty (lines
\* 98, 144, 201-211, 276, 306 and 569-581).
ChildResults(from, bnd, la) ==
    {NoMatch} \cup
    { [parsed |-> TRUE, elements |-> <<Leaf("c", sp)>>, span |-> sp] :
        sp \in ChildSpans(from, bnd, la) }

\* ------------------------------------------------------------- the grammar
\* self.patterns of the parser under test.  Of a BeginEndParser: a plain child,
\* a child anchored to the begin match (\G), a disabled child and the parser
\* itself ($self).  Of a PatternsParser: two plain children around a disabled
\* one.
PatternsOf(k) ==
    IF k = "BeginEnd" THEN <<"P1", "PA", "PD", "SELF">> ELSE <<"P1", "PD", "P2">>
injected_patterns == <<"INJ">>
disabled(p) == p = "PD"
anchored(p) == p = "PA"

Tokens == {"", "t"}
Kinds == {"Token", "Match", "Patterns", "BeginEnd", "BeginWhile"}

NotDisabled(p) == ~disabled(p)
NotAnchored(p) == ~anchored(p)

\* The boundary a search works with when the caller gave none.
Bnd(b) == IF b = None THEN EndOfText ELSE b

\* The record of one call parser._parse(handler, at, allow_leading_all=la).
Call(p, at, la, r) ==
    [parser |-> p, at |-> at, la |-> la, parsed |-> r.parsed,
     elements |-> r.elements, span |-> r.span]

\* ------------------------------------------------------------------- Init
\* No grammar dict is being dispatched.
\* GrammarParser.initialize has not been called.
NotCalled == "not called"

InitializeIdle == grammar = {} /\ result = NotCalled

\* No parser tree is being initialized.
\* Python's None where a parser is expected: self.language of a parser built
\* without a language, the value of repository.get for an absent name.
NoParser == "None"

\* No exception was raised.
NoError == "no error"

RepositoryIdle ==
    /\ repo = <<>>
    /\ language = NoParser
    /\ stack = <<>>
    /\ error = NoError
    /\ entered = <<>>
    /\ round = 0
    /\ snapshot = <<>>

\* A stream element: an element a search or a sub-parser made for a group.
GroupElement(gid, span) == [token |-> gid, span |-> span]

\* No match object.
NoMatching == [found |-> FALSE, start |-> 0, close |-> 0, groups |-> <<>>]

NotReturned == [elements |-> <<>>, span |-> None]

\* No search call is running.
SearchIdle ==
    /\ stream = 0
    /\ initPos = 0
    /\ parsers = <<>>
    /\ matching = NoMatching
    /\ groupIdx = 1
    /\ search_elements = <<>>
    /\ search_ret = NotReturned
    /\ spc = "idle"
    /\ outcome = "none"

\* ParsedElement(token, grammar, content, span, captures).
Parsed(tok, cs) ==
    [type |-> "ParsedElement", token |-> tok, content |-> "text", span |-> <<0, 1>>,
     captures |-> cs, begin |-> <<>>, end |-> <<>>, yields |-> <<>>]

\* No element is being serialized.
ElementIdle ==
    /\ element = Parsed("t", <<>>)
    /\ out_dict = <<>>
    /\ to_dict_args = [form |-> "none", content |-> TRUE, parse_unparsed |-> TRUE]
    /\ before = Parsed("t", <<>>)

\* No reference search is computing a span.
SpanIdle ==
    /\ text = <<>>
    /\ regex = [behind |-> <<>>, body |-> <<>>]
    /\ readSize = 0
    /\ lookbehind = 0
    /\ streamCanLookbehind = FALSE

\* PARSERSTORE = {} of the class body, and no parse made.
StoreIdle ==
    /\ instances = <<>>
    /\ PARSERSTORE = [key \in {} |-> 0]
    /\ resolved = <<>>

\* No pattern loop is running.
LoopsIdle ==
    /\ loopBE = [status |-> "idle"]
    /\ loopPP = [status |-> "idle"]

ReferenceIdle ==
    /\ SpanIdle
    /\ StoreIdle
    /\ LoopsIdle


\* No _parse call is running.
ParseIdle ==
    /\ lines = <<<<NL>>>>
    /\ anchor = 0
    /\ kind = "Token"
    /\ token = ""
    /\ between_content = FALSE
    /\ self_apl = FALSE
    /\ starting = <<0, 0>>
    /\ boundary = None
    /\ allow_leading_all = FALSE
    /\ find_one = TRUE
    /\ injections = FALSE
    /\ pc = "idle"
    /\ patterns = <<>>
    /\ idx = 1
    /\ current = <<0, 0>>
    /\ parsed = FALSE
    /\ elements = <<>>
    /\ capture_elements = <<>>
    /\ capture_span = None
    /\ apl = FALSE
    /\ begin_span = None
    /\ begin_elements = <<>>
    /\ end_span = None
    /\ end_elements = <<>>
    /\ mid_elements = <<>>
    /\ first_run = TRUE
    /\ closing = None
    /\ ret = NoMatch
    /\ warnings = {}
    /\ calls = <<>>
    /\ passStart = <<0, 0>>
    /\ iter = 0
    /\ accepted = <<>>
    /\ branch = "none"
    /\ self_patterns = <<>>
    /\ invocation = 0
    /\ other = "idle"
    /\ replay = FALSE
    /\ tape = <<>>
    /\ cursor = 1
    /\ first = NoMatch

\* The variables of a _parse call.
parseVars == <<lines, anchor, kind, token, between_content, self_apl, starting,
               boundary, allow_leading_all, find_one, injections, pc, patterns,
               idx, current, parsed, elements, capture_elements, capture_span,
               apl, begin_span, begin_elements, end_span, end_elements,
               mid_elements, first_run, closing, ret, warnings, calls,
               passStart, iter, accepted, branch, self_patterns, invocation,
               other, replay, tape, cursor, first>>

\* The state at the entry of the first _parse call of one parser.
Entry ==
    /\ InitializeIdle
    /\ RepositoryIdle
    /\ SearchIdle
    /\ ElementIdle
    /\ ReferenceIdle
    /\ lines \in Texts
    /\ kind \in Kinds
    /\ self_patterns = PatternsOf(kind)
    /\ invocation = 1
    /\ other = "idle"
    /\ token \in Tokens
    /\ between_content \in (IF kind \in {"BeginEnd", "BeginWhile"} THEN BOOLEAN
                            ELSE {FALSE})
    /\ self_apl \in (IF kind = "BeginEnd" THEN BOOLEAN ELSE {FALSE})
    /\ starting = <<0, 0>>
    /\ boundary \in (IF kind = "BeginEnd" THEN {<<0, line_lengths(0)>>}
                      ELSE { b \in Positions : PosLE(starting, b) })
                     \cup (IF kind = "Token" THEN {} ELSE {None})
    /\ allow_leading_all \in (IF kind = "BeginEnd" THEN {FALSE} ELSE BOOLEAN)
    /\ find_one \in (IF kind = "Patterns" THEN BOOLEAN ELSE {TRUE})
    /\ injections \in (IF kind = "Patterns" THEN BOOLEAN ELSE {FALSE})
    /\ anchor = 0
    /\ pc = "start"
    /\ patterns = <<>>
    /\ idx = 1
    /\ current = starting
    /\ parsed = FALSE
    /\ elements = <<>>
    /\ capture_elements = <<>>
    /\ capture_span = None
    /\ apl = FALSE
    /\ begin_span = None
    /\ begin_elements = <<>>
    /\ end_span = None
    /\ end_elements = <<>>
    /\ mid_elements = <<>>
    /\ first_run = TRUE
    /\ closing = None
    /\ ret = NoMatch
    /\ warnings = {}
    /\ calls = <<>>
    /\ passStart = starting
    /\ iter = 0
    /\ accepted = <<>>
    /\ branch = "none"
    /\ tape = <<>>
    /\ cursor = 1
    /\ first = NoMatch

\* The state at the entry of one _parse call of one parser.
Init ==
    /\ Entry
    /\ replay = FALSE

\* --------------------------------------------------------- TokenParser
\* handler.anchor = boundary[1] (line 142): the column of boundary.
TokenAnchor_Line == boundary[1]

TokenAnchor == boundary[2]

\* TokenParser._parse: one element of the token from starting to boundary.
TokenParse ==
    /\ pc = "start" /\ kind = "Token"
    /\ anchor' = TokenAnchor
    /\ ret' = [parsed |-> TRUE,
               elements |-> <<Leaf(token, <<starting, boundary>>)>>,
               span |-> <<starting, boundary>>]
    /\ pc' = "done"
    /\ UNCHANGED <<cfgVars, self_patterns, tape, cursor, beVars, boundary, patterns, idx, current, parsed,
                   elements, warnings, calls, passStart, iter, accepted, branch>>

\* if self.token: (lines 200 and 568), false of an empty token and of None.
EmitsOwnElement_Always == TRUE

EmitsOwnElement == token /= ""

\* --------------------------------------------------------- MatchParser
\* content=content (line 205): the text of the match, matching.group().
MatchContent_ToBoundary(m) == read_pos(m.span[1], Bnd(boundary))

MatchContent(m) == m.content

\* MatchParser._parse: one search; the match wrapped in an element of the
\* token, or the captures alone when the token is empty.
MatchParse ==
    /\ pc = "start" /\ kind = "Match"
    /\ \E m \in match_and_capture(starting, Bnd(boundary), allow_leading_all, "c") :
          /\ calls' = <<Call("MATCH", starting, allow_leading_all, m)>>
          /\ IF ~m.parsed
             THEN ret' = NoMatch
             ELSE ret' = [parsed |-> TRUE,
                          elements |->
                            IF EmitsOwnElement
                            THEN <<Element(token, MatchContent(m), m.span[1],
                                           m.span[2], m.elements, <<>>, <<>>)>>
                            ELSE m.elements,
                          span |-> m.span]
    /\ pc' = "done"
    /\ UNCHANGED <<cfgVars, self_patterns, tape, cursor, beVars, anchor, boundary, patterns, idx, current,
                   parsed, elements, warnings, passStart, iter, accepted,
                   branch>>

\* ------------------------------------------------------ PatternsParser
\* if find_one or injections: (line 257)
IncludeInjected_OnlyInjections == injections

IncludeInjected == find_one \/ injections

\* Lines 251-260: the default boundary, the search set and the cursor.
PPStart ==
    /\ pc = "start" /\ kind = "Patterns"
    /\ boundary' = Bnd(boundary)
    /\ parsed' = FALSE
    /\ elements' = <<>>
    /\ patterns' = SelectSeq(self_patterns, NotDisabled)
                     \o (IF IncludeInjected THEN injected_patterns ELSE <<>>)
    /\ current' = starting
    /\ pc' = "pp_while"
    /\ UNCHANGED <<cfgVars, self_patterns, tape, cursor, beVars, anchor, idx, ret, warnings, calls, passStart,
                   iter, accepted, branch>>

\* Line 262: while current < boundary.
PPWhile ==
    /\ pc = "pp_while"
    /\ IF PosLT(current, boundary)
       THEN /\ iter < MaxIter
            /\ pc' = "pp_for1"
            /\ idx' = 1
            /\ calls' = <<>>
            /\ passStart' = current
            /\ iter' = iter + 1
       ELSE /\ pc' = "pp_return"
            /\ UNCHANGED <<idx, calls, passStart, iter>>
    /\ UNCHANGED <<cfgVars, self_patterns, tape, cursor, beVars, anchor, boundary, patterns, current, parsed,
                   elements, ret, warnings, accepted, branch>>

\* current = span[1] (lines 278 and 295)
NextCursor_SpanStart(r) == r.span[1]

NextCursor(r) == r.span[2]

\* What follows a child that parsed, in either for loop (lines 273-279 and
\* 290-296).
PPAccept(r) ==
    IF find_one
    THEN /\ ret' = [parsed |-> TRUE, elements |-> r.elements, span |-> r.span]
         /\ pc' = "done"
         /\ UNCHANGED <<elements, current, accepted>>
    ELSE /\ elements' = elements \o r.elements
         /\ current' = NextCursor(r)
         /\ accepted' = Append(accepted, r.span)
         /\ pc' = "pp_check"
         /\ UNCHANGED ret

\* The allow_leading_all the first for loop hands to the children (line 269).
FirstPassLeading_False == FALSE

FirstPassLeading == allow_leading_all

\* Whether the second for loop runs over the patterns after a first loop
\* without a match (lines 281-284): not for find_one, and second_try_patterns
\* is empty when allow_leading_all was set.
RetryWithLeading_IgnoreFindOne == ~allow_leading_all

RetryWithLeading == ~find_one /\ ~allow_leading_all

\* Lines 263-284: the first for loop, one child per step, and its else.
PPFor1 ==
    /\ pc = "pp_for1"
    /\ IF idx <= Len(patterns)
       THEN \E r \in ChildResults(current, boundary, FirstPassLeading) :
              /\ parsed' = r.parsed
              /\ calls' = Append(calls, Call(patterns[idx], current, FirstPassLeading, r))
              /\ IF r.parsed
                 THEN PPAccept(r) /\ UNCHANGED idx
                 ELSE /\ idx' = idx + 1
                      /\ UNCHANGED <<pc, ret, elements, current, accepted>>
       ELSE /\ IF RetryWithLeading
               THEN pc' = "pp_for2"
               ELSE pc' = "pp_return"
            /\ idx' = 1
            /\ UNCHANGED <<parsed, calls, ret, elements, current, accepted>>
    /\ UNCHANGED <<cfgVars, self_patterns, tape, cursor, beVars, anchor, boundary, patterns, warnings,
                   passStart, iter, branch>>

\* Lines 286-298: the second for loop, with allow_leading_all=True, and its
\* else.
PPFor2 ==
    /\ pc = "pp_for2"
    /\ IF idx <= Len(patterns)
       THEN \E r \in ChildResults(current, boundary, TRUE) :
              /\ parsed' = r.parsed
              /\ calls' = Append(calls, Call(patterns[idx], current, TRUE, r))
              /\ IF r.parsed
                 THEN PPAccept(r) /\ UNCHANGED idx
                 ELSE /\ idx' = idx + 1
                      /\ UNCHANGED <<pc, ret, elements, current, accepted>>
       ELSE /\ pc' = "pp_return"
            /\ UNCHANGED <<idx, parsed, calls, ret, elements, current, accepted>>
    /\ UNCHANGED <<cfgVars, self_patterns, tape, cursor, beVars, anchor, boundary, patterns, warnings,
                   passStart, iter, branch>>

\* The position the stall check of line 300 compares current with.
StallReference == starting

\* Lines 300-304: warn and leave the loop when the handler did not move.
PPCheck ==
    /\ pc = "pp_check"
    /\ IF current = StallReference
       THEN /\ warnings' = warnings \cup {"did not move"}
            /\ pc' = "pp_return"
       ELSE /\ pc' = "pp_while"
            /\ UNCHANGED warnings
    /\ UNCHANGED <<cfgVars, self_patterns, tape, cursor, beVars, anchor, boundary, patterns, idx, current,
                   parsed, elements, ret, calls, passStart, iter, accepted, branch>>

\* bool(elements) (line 306): whether any element was collected.
AnyMatched_LastParsed == parsed

AnyMatched == elements /= <<>>

\* Line 306: return bool(elements), elements, (starting, current).
PPReturn ==
    /\ pc = "pp_return"
    /\ ret' = [parsed |-> AnyMatched, elements |-> elements,
               span |-> <<starting, current>>]
    /\ pc' = "done"
    /\ UNCHANGED <<cfgVars, self_patterns, tape, cursor, beVars, anchor, boundary, patterns, idx, current,
                   parsed, elements, warnings, calls, passStart, iter, accepted,
                   branch>>

\* ------------------------------------------------------ BeginEndParser
\* A search is a function of the pattern, the text and the handler: a repeated
\* call that asks what the first call asked gets the answer the first call got.
Replayed(q, r) ==
    (replay /\ invocation > 1 /\ cursor <= Len(tape) /\ tape[cursor].q = q) =>
        r = tape[cursor].r

Recorded(q, r) ==
    /\ tape' = (IF replay /\ invocation = 1 THEN Append(tape, [q |-> q, r |-> r])
                ELSE tape)
    /\ cursor' = (IF replay /\ invocation > 1 THEN cursor + 1 ELSE cursor)

\* first_run as an attribute that outlives the call.
FirstRunAtEntry_Kept == first_run

\* first_run = True (line 385), a local of the call.
FirstRunAtEntry == TRUE

\* Lines 363-385: the begin match, then the cursor and the loop parameters.
BEBegin ==
    /\ pc = "start" /\ kind = "BeginEnd"
    /\ \E m \in match_and_capture(starting, Bnd(boundary), allow_leading_all, "b") :
          /\ Replayed(<<"BEGIN", starting, Bnd(boundary), allow_leading_all>>, m)
          /\ Recorded(<<"BEGIN", starting, Bnd(boundary), allow_leading_all>>, m)
          /\ IF ~m.parsed
             THEN /\ ret' = NoMatch
                  /\ pc' = "done"
                  /\ UNCHANGED <<begin_span, begin_elements, current, boundary,
                                 end_elements, mid_elements, patterns, first_run>>
             ELSE /\ begin_span' = m.span
                  /\ begin_elements' = m.elements
                  /\ current' = m.span[2]
                  /\ boundary' = Bnd(boundary)
                  /\ end_elements' = <<>>
                  /\ mid_elements' = <<>>
                  /\ patterns' = SelectSeq(self_patterns, NotDisabled)
                  /\ first_run' = FirstRunAtEntry
                  /\ pc' = "be_while"
                  /\ UNCHANGED ret
    /\ UNCHANGED <<cfgVars, self_patterns, anchor, idx, parsed, elements, capture_elements,
                   capture_span, apl, end_span, closing, warnings, calls,
                   passStart, iter, accepted, branch>>

\* The closing and the end span of a loop that ran out (lines 557-560).
ExhaustedClosing == boundary
ExhaustedEndSpan == <<None, boundary>>

\* Line 387: while current <= boundary, with the reset of parsed and of the
\* flag of this iteration (lines 388-392), and the else of the loop.  The
\* capture and the end span of the iteration before are not read again before
\* lines 396 and 406 assign them: the model forgets them here.
BEWhile ==
    /\ pc = "be_while"
    /\ IF PosLE(current, boundary)
       THEN /\ iter < MaxIter
            /\ parsed' = FALSE
            /\ apl' = FALSE
            /\ idx' = 1
            /\ calls' = <<>>
            /\ passStart' = current
            /\ iter' = iter + 1
            /\ pc' = "be_for1"
            /\ capture_elements' = <<>>
            /\ capture_span' = None
            /\ end_span' = None
            /\ UNCHANGED <<closing, branch>>
       ELSE /\ closing' = ExhaustedClosing
            /\ end_span' = ExhaustedEndSpan
            /\ branch' = "exhausted"
            /\ pc' = "be_emit"
            /\ UNCHANGED <<parsed, apl, idx, calls, passStart, iter,
                           capture_elements, capture_span>>
    /\ UNCHANGED <<cfgVars, self_patterns, tape, cursor, anchor, boundary, patterns, current, elements,
                   begin_span, begin_elements, end_elements, mid_elements,
                   first_run, ret, warnings, accepted>>

\* One step of a for loop over the inner patterns (lines 395-403 with
\* allow_leading_all=False, lines 417-425 with True), then on to the end search.
BEFor(here, la, there) ==
    /\ pc = here
    /\ IF idx <= Len(patterns)
       THEN \E r \in ChildResults(current, boundary, la) :
              /\ Replayed(<<patterns[idx], current, boundary, la>>, r)
              /\ Recorded(<<patterns[idx], current, boundary, la>>, r)
              /\ parsed' = r.parsed
              /\ capture_elements' = r.elements
              /\ capture_span' = r.span
              /\ calls' = Append(calls, Call(patterns[idx], current, la, r))
              /\ IF r.parsed
                 THEN /\ apl' = (IF patterns[idx] = "SELF" THEN TRUE ELSE apl)
                      /\ pc' = there
                      /\ UNCHANGED idx
                 ELSE /\ idx' = idx + 1
                      /\ UNCHANGED <<apl, pc>>
       ELSE /\ pc' = there
            /\ UNCHANGED <<parsed, capture_elements, capture_span, calls, apl, idx,
                           tape, cursor>>
    /\ UNCHANGED <<cfgVars, self_patterns, anchor, boundary, patterns, current, elements,
                   begin_span, begin_elements, end_span, end_elements,
                   mid_elements, first_run, closing, ret, warnings, passStart,
                   iter, accepted, branch>>

BEFor1 == BEFor("be_for1", FALSE, "be_end1")

BEFor2 == BEFor("be_for2", TRUE, "be_end2")

\* Lines 406-415 with the second pass entered whenever the end did not match.
BEEnd1_UnlessEnd ==
    /\ pc = "be_end1"
    /\ \E m \in match_and_capture(current, boundary, FALSE, "e") :
          /\ Replayed(<<"END", current, boundary, FALSE>>, m)
          /\ Recorded(<<"END", current, boundary, FALSE>>, m)
          /\ end_span' = m.span
          /\ end_elements' = m.elements
          /\ calls' = Append(calls, Call("END", current, FALSE, m))
          /\ IF ~m.parsed
             THEN pc' = "be_for2" /\ idx' = 1
             ELSE pc' = "be_decide" /\ UNCHANGED idx
    /\ UNCHANGED <<cfgVars, self_patterns, anchor, boundary, patterns, current, parsed,
                   elements, capture_elements, capture_span, apl, begin_span,
                   begin_elements, mid_elements, first_run, closing, ret,
                   warnings, passStart, iter, accepted, branch>>

\* Lines 406-415: the end search with allow_leading_all=False; the second pass
\* follows when neither the patterns nor the end matched.
BEEnd1 ==
    /\ pc = "be_end1"
    /\ \E m \in match_and_capture(current, boundary, FALSE, "e") :
          /\ Replayed(<<"END", current, boundary, FALSE>>, m)
          /\ Recorded(<<"END", current, boundary, FALSE>>, m)
          /\ end_span' = m.span
          /\ end_elements' = m.elements
          /\ calls' = Append(calls, Call("END", current, FALSE, m))
          /\ IF ~parsed /\ ~m.parsed
             THEN pc' = "be_for2" /\ idx' = 1
             ELSE pc' = "be_decide" /\ UNCHANGED idx
    /\ UNCHANGED <<cfgVars, self_patterns, anchor, boundary, patterns, current, parsed,
                   elements, capture_elements, capture_span, apl, begin_span,
                   begin_elements, mid_elements, first_run, closing, ret,
                   warnings, passStart, iter, accepted, branch>>

\* Lines 427-434: the end search with allow_leading_all=True.
BEEnd2 ==
    /\ pc = "be_end2"
    /\ \E m \in match_and_capture(current, boundary, TRUE, "e") :
          /\ Replayed(<<"END", current, boundary, TRUE>>, m)
          /\ Recorded(<<"END", current, boundary, TRUE>>, m)
          /\ end_span' = m.span
          /\ end_elements' = m.elements
          /\ calls' = Append(calls, Call("END", current, TRUE, m))
    /\ pc' = "be_decide"
    /\ UNCHANGED <<cfgVars, self_patterns, anchor, boundary, patterns, idx, current, parsed,
                   elements, capture_elements, capture_span, apl, begin_span,
                   begin_elements, mid_elements, first_run, closing, ret,
                   warnings, passStart, iter, accepted, branch>>

\* Lines 439-447: the three comparisons of a capture with an end match.
pattern_at_end ==
    LET capture_before_end == handler_prev(capture_span[2])
    IN  IF read_length(capture_before_end) = NL
        THEN end_span[2] \in {capture_before_end, capture_span[2]}
        ELSE end_span[2] = capture_span[2]

end_before_pattern == PosLE(end_span[1], capture_span[1])

empty_span_end == end_span[2] = end_span[1]

\* closing = end_span[0] if self.between_content else end_span[1]
ClosingAtEnd_EndOfEnd == end_span[2]

ClosingAtEnd == IF between_content THEN end_span[1] ELSE end_span[2]

\* Lines 449-480 with the rule's flag alone deciding.
AtEndBranch_RuleFlagOnly ==
    IF empty_span_end THEN "both accepted"
    ELSE IF ~self_apl THEN "end prioritized"
    ELSE "capture prioritized"

\* Lines 449-480: the capture ends where the end match ends.
AtEndBranch ==
    IF empty_span_end THEN "both accepted"
    ELSE IF ~self_apl /\ ~apl THEN "end prioritized"
    ELSE "capture prioritized"

\* Lines 482-501 with <= in place of <.
ApartBranch_OrEqual ==
    IF PosLE(capture_span[1], end_span[1]) THEN "leading capture"
    ELSE "leading end"

\* Lines 482-501: the capture and the end match lie apart.
ApartBranch ==
    IF PosLT(capture_span[1], end_span[1]) THEN "leading capture"
    ELSE "leading end"

\* Lines 436-548 without the look at the character after the capture.
Decision_NoNewlineCase ==
    IF end_span /= None
    THEN IF parsed
         THEN IF pattern_at_end /\ (end_before_pattern \/ empty_span_end)
              THEN AtEndBranch
              ELSE ApartBranch
         ELSE "end"
    ELSE IF parsed THEN "capture" ELSE "skip line"

\* The branch lines 436-548 take.
Decision ==
    IF end_span /= None
    THEN IF parsed
         THEN IF pattern_at_end /\ (end_before_pattern \/ empty_span_end)
              THEN AtEndBranch
              ELSE ApartBranch
         ELSE "end"
    ELSE IF parsed
         THEN IF read_length(capture_span[2]) = NL THEN "capture, newline"
              ELSE "capture"
         ELSE "skip line"

Closes(b) == b \in {"both accepted", "end prioritized", "leading end", "end"}

\* mid_elements.extend(capture_elements), left out where both are accepted.
Appends_NotWithEnd(b) == b \in {"capture prioritized", "leading capture",
                                "capture, newline", "capture"}

Appends(b) == b \in {"both accepted", "capture prioritized", "leading capture",
                     "capture, newline", "capture"}

\* patterns = [parser for parser in patterns if not parser.anchored]
DropAnchored_Keep(ps) == ps

DropAnchored(ps) == SelectSeq(ps, NotAnchored)

\* Line 555 as a filter of the parser's own list.
FieldAfterDrop_InPlace == DropAnchored(self_patterns)

\* self.patterns after line 555: the comprehension builds a new list and binds
\* it to the local name; the list of line 384 was a new list already.
FieldAfterDrop == self_patterns

\* Lines 552-556 alone: the drop of the anchored patterns, no extra step.
BEContinue_NoStep(cur) ==
    /\ current' = cur
    /\ patterns' = (IF first_run THEN DropAnchored(patterns) ELSE patterns)
    /\ self_patterns' = (IF first_run THEN FieldAfterDrop ELSE self_patterns)
    /\ first_run' = FALSE
    /\ pc' = "be_while"
    /\ UNCHANGED closing

\* Lines 550-556, which a break skips: the extra step after a recursive child
\* and the drop of the anchored patterns after the first round.
BEContinue(cur) ==
    /\ current' = (IF apl THEN handler_next(cur) ELSE cur)
    /\ patterns' = (IF first_run THEN DropAnchored(patterns) ELSE patterns)
    /\ self_patterns' = (IF first_run THEN FieldAfterDrop ELSE self_patterns)
    /\ first_run' = FALSE
    /\ pc' = "be_while"
    /\ UNCHANGED closing

BEBreak ==
    /\ closing' = ClosingAtEnd
    /\ pc' = "be_emit"
    /\ UNCHANGED <<current, patterns, first_run, self_patterns>>

\* Lines 436-556: the decision of one iteration.
BEDecide ==
    /\ pc = "be_decide"
    /\ LET b == Decision IN
       /\ branch' = b
       /\ mid_elements' = (IF Appends(b) THEN mid_elements \o capture_elements
                           ELSE mid_elements)
       /\ accepted' = (IF Appends(b) THEN Append(accepted, capture_span) ELSE accepted)
       /\ IF Closes(b)
          THEN BEBreak /\ UNCHANGED <<end_span, warnings, tape, cursor>>
          ELSE IF b \in {"capture prioritized", "leading capture", "capture"}
          THEN BEContinue(capture_span[2]) /\ UNCHANGED <<end_span, warnings, tape, cursor>>
          ELSE IF b = "capture, newline"
          THEN \E m \in match_and_capture(capture_span[2], boundary, FALSE, "e") :
                 /\ Replayed(<<"END", capture_span[2], boundary, FALSE>>, m)
                 /\ Recorded(<<"END", capture_span[2], boundary, FALSE>>, m)
                 /\ end_span' = m.span
                 /\ IF m.parsed /\ PosLE(m.span[2], handler_next(capture_span[2]))
                    THEN BEContinue(capture_span[2])
                    ELSE BEContinue(handler_next(capture_span[2]))
                 /\ UNCHANGED warnings
          ELSE /\ LET line == read_line(current) IN
                  warnings' = (IF line /= <<>> /\ ~isspace(line)
                               THEN warnings \cup {"no patterns found in line"}
                               ELSE warnings)
               /\ BEContinue(handler_next(<<current[1], line_lengths(current[1])>>))
               /\ UNCHANGED <<end_span, tape, cursor>>
    /\ UNCHANGED <<cfgVars, anchor, boundary, idx, parsed, elements,
                   capture_elements, capture_span, apl, begin_span,
                   begin_elements, end_elements, ret, calls, passStart, iter>>

\* start = begin_span[1] if self.between_content else begin_span[0]
ContentStart == IF between_content THEN begin_span[2] ELSE begin_span[1]

\* The span of line 583: (begin_span[0], end_span[1]).
ReturnSpan_Closing == <<begin_span[1], closing>>

ReturnSpan == <<begin_span[1], end_span[2]>>

\* Lines 562-583: the block element, or the flat list when the token is empty.
BEEmit ==
    /\ pc = "be_emit"
    /\ ret' = [parsed |-> TRUE,
               elements |->
                 IF EmitsOwnElement
                 THEN <<Element(token, read_pos(ContentStart, closing),
                                ContentStart, closing, mid_elements,
                                begin_elements, end_elements)>>
                 ELSE begin_elements \o mid_elements \o end_elements,
               span |-> ReturnSpan]
    /\ pc' = "done"
    /\ UNCHANGED <<cfgVars, self_patterns, tape, cursor, beVars, anchor, boundary, patterns, idx, current,
                   parsed, elements, warnings, calls, passStart, iter, accepted,
                   branch>>

\* ------------------------------------------------------ BeginWhileParser
\* What BeginWhileParser._parse does with its arguments (line 634).
WhileOutcome == "NotImplementedError"

\* BeginWhileParser._parse: the exception leaves the call, nothing is returned.
WhileParse ==
    /\ pc = "start" /\ kind = "BeginWhile"
    /\ error' = WhileOutcome
    /\ pc' = (IF WhileOutcome = NoError THEN "done" ELSE "raised")
    /\ UNCHANGED <<lines, kind, token, between_content, self_apl, starting,
                   allow_leading_all, find_one, injections, self_patterns,
                   invocation, other, replay, first, tape, cursor, initVars, repo,
                   language, stack, entered, round, snapshot, searchVars, elemVars, refVars>>
    /\ UNCHANGED <<anchor, beVars, boundary, patterns, idx, current, parsed,
                   elements, ret, warnings, calls, passStart, iter, accepted,
                   branch>>

Next ==
    \/ TokenParse
    \/ MatchParse
    \/ PPStart
    \/ PPWhile
    \/ PPFor1
    \/ PPFor2
    \/ PPCheck
    \/ PPReturn
    \/ BEBegin
    \/ BEWhile
    \/ BEFor1
    \/ BEFor2
    \/ BEEnd1
    \/ BEEnd2
    \/ BEDecide
    \/ BEEmit
    \/ WhileParse

Spec == Init /\ [][Next]_vars

\* ----------------------------------------------- a parser called again
\* The caller calls _parse of the same BeginEndParser again (line 396 of the
\* caller): fresh arguments and locals, the same parser object, handler and log.
\* A replayed call is given the arguments of the first call.  first_run is
\* bound by line 385 of the new call.
BEAgain ==
    /\ pc = "done" /\ kind = "BeginEnd"
    /\ invocation < MaxInvocations
    /\ invocation' = invocation + 1
    /\ boundary' \in (IF replay THEN {boundary} ELSE {None, <<0, line_lengths(0)>>})
    /\ first' = (IF replay /\ invocation = 1 THEN ret ELSE first)
    /\ cursor' = 1
    /\ pc' = "start"
    /\ patterns' = <<>>
    /\ idx' = 1
    /\ current' = starting
    /\ parsed' = FALSE
    /\ elements' = <<>>
    /\ capture_elements' = <<>>
    /\ capture_span' = None
    /\ apl' = FALSE
    /\ begin_span' = None
    /\ begin_elements' = <<>>
    /\ end_span' = None
    /\ end_elements' = <<>>
    /\ mid_elements' = <<>>
    /\ closing' = None
    /\ ret' = NoMatch
    /\ calls' = <<>>
    /\ passStart' = starting
    /\ iter' = 0
    /\ accepted' = <<>>
    /\ branch' = "none"
    /\ UNCHANGED <<lines, anchor, kind, token, between_content, self_apl, starting,
                   allow_leading_all, find_one, injections, warnings,
                   self_patterns, other, replay, tape, first_run, initVars,
                   repoVars, searchVars, elemVars, refVars>>

InitAgain ==
    /\ Init
    /\ kind = "BeginEnd"
    /\ token = "t"
    /\ ~between_content

NextAgain ==
    \/ BEBegin
    \/ BEWhile
    \/ BEFor1
    \/ BEFor2
    \/ BEEnd1
    \/ BEEnd2
    \/ BEDecide
    \/ BEEmit
    \/ BEAgain

SpecAgain == InitAgain /\ [][NextAgain]_vars

\* The same text parsed again with the same parser: the searches of a repeated
\* call answer as they answered the first call.
InitReplay ==
    /\ Entry
    /\ kind = "BeginEnd"
    /\ token = "t"
    /\ ~between_content
    /\ Len(lines) = 1
    /\ replay = TRUE

SpecReplay == InitReplay /\ [][NextAgain]_vars

\* ------------------------------------------- two parses on one parser tree
\* One step of another _parse call on the same parser, with a ContentHandler
\* of its own: it reads self.patterns (line 384), later passes lines 553-556,
\* and returns.  Its locals and the anchor of its handler are its own; of the
\* state the two calls share it writes what line 555 writes.
OtherParse ==
    /\ pc \notin {"done", "raised"}
    /\ \/ /\ other = "idle"
          /\ other' = "first_run"
          /\ UNCHANGED self_patterns
       \/ /\ other = "first_run"
          /\ other' = "later"
          /\ self_patterns' = (IF kind = "BeginEnd" THEN FieldAfterDrop
                               ELSE self_patterns)
       \/ /\ other = "later"
          /\ other' = "idle"
          /\ UNCHANGED self_patterns
    /\ UNCHANGED <<lines, kind, token, between_content, self_apl, starting,
                   allow_leading_all, find_one, injections, invocation,
                   replay, first, tape, cursor, initVars, repoVars, searchVars, elemVars, refVars>>
    /\ UNCHANGED <<anchor, beVars, boundary, pc, patterns, idx, current, parsed,
                   elements, ret, warnings, calls, passStart, iter, accepted,
                   branch>>

InitShared ==
    /\ Init
    /\ kind = "BeginEnd" => (token = "t" /\ ~between_content /\ ~self_apl)

NextShared ==
    \/ Next
    \/ OtherParse

SpecShared == InitShared /\ [][NextShared]_vars

\* ------------------------------- sphinx_matlab: GrammarParser.search
StreamPositions == 0..MaxStream

\* The captures dict __init_captures builds (lines 43-48): the keys int(groupId)
\* in the order of the grammar's map, which is the order parsers.items() has.
Listings ==
    { l \in UNION { [1..n -> 0..MaxGroups] : n \in 0..(MaxGroups + 1) } :
        \A i, j \in DOMAIN l : i /= j => l[i] /= l[j] }

\* The match objects regex.search may return, with the position in the stream
\* they were found at (lines 360-399).  matching.span(groupId) of a group is
\* None of a group that took no part, else a span inside the match.
Matchings ==
    UNION { { [found |-> TRUE, start |-> sp[1], close |-> sp[2], groups |-> g] :
                g \in [1..MaxGroups ->
                         {None} \cup { gs \in (sp[1]..sp[2]) \X (sp[1]..sp[2]) :
                                         gs[1] <= gs[2] }] } :
            sp \in { q \in StreamPositions \X StreamPositions : q[1] <= q[2] } }

\* if not group: an unmatched group (None) and an empty one ("").
NotGroup(span) == span = None \/ span[1] = span[2]

\* parser.parse(stream, startPos, closePos) of the parser of a group: whether
\* it matched, its elements, and where it left the stream.
GroupParse(gid, span) ==
    { [matched |-> FALSE, elements |-> <<>>, at |-> span[1]],
      [matched |-> FALSE, elements |-> <<>>, at |-> span[2]],
      [matched |-> TRUE, elements |-> <<>>, at |-> span[2]],
      [matched |-> TRUE, elements |-> <<GroupElement(gid, span)>>, at |-> span[2]] }

\* stream.seek(initPos) left out.
Rewound_NoSeek == stream

\* stream.seek(initPos) before return [], None (lines 396 and 417).
Rewound == initPos

\* The state at the entry of one search call.
InitSearch ==
    /\ ParseIdle
    /\ InitializeIdle
    /\ RepositoryIdle
    /\ ElementIdle
    /\ ReferenceIdle
    /\ stream \in StreamPositions
    /\ initPos = stream
    /\ parsers \in Listings
    /\ matching = NoMatching
    /\ groupIdx = 1
    /\ search_elements = <<>>
    /\ search_ret = NotReturned
    /\ spc = "search"
    /\ outcome = "none"

\* Lines 358-419: the regex search, then the branch on the parsers given.
Search ==
    /\ spc = "search"
    /\ \/ /\ stream' = Rewound
          /\ search_ret' = [elements |-> <<>>, span |-> None]
          /\ outcome' = "no match"
          /\ spc' = "done"
          /\ UNCHANGED <<matching, search_elements>>
       \/ \E m \in Matchings :
             /\ matching' = m
             /\ stream' = m.start
             /\ IF \E i \in DOMAIN parsers : parsers[i] = 0
                THEN /\ search_elements' = <<GroupElement(0, <<m.start, m.close>>)>>
                     /\ spc' = "return"
                ELSE /\ search_elements' = <<>>
                     /\ spc' = (IF parsers /= <<>> THEN "groups" ELSE "return")
             /\ UNCHANGED <<search_ret, outcome>>
    /\ UNCHANGED <<initPos, parsers, groupIdx, elemVars, refVars, parseVars, initVars, repoVars>>

\* Lines 409-422: one round of the loop over parsers.items(), and its end.
Group ==
    /\ spc = "groups"
    /\ IF groupIdx <= Len(parsers)
       THEN LET groupId == parsers[groupIdx]
                span == matching.groups[groupId]
            IN  IF NotGroup(span)
                THEN /\ groupIdx' = groupIdx + 1
                     /\ UNCHANGED <<stream, search_elements, search_ret, spc, outcome>>
                ELSE \E r \in GroupParse(groupId, span) :
                       IF ~r.matched
                       THEN /\ stream' = Rewound
                            /\ search_ret' = [elements |-> <<>>, span |-> None]
                            /\ outcome' = "group failed"
                            /\ spc' = "done"
                            /\ UNCHANGED <<groupIdx, search_elements>>
                       ELSE /\ stream' = r.at
                            /\ search_elements' = search_elements \o r.elements
                            /\ groupIdx' = groupIdx + 1
                            /\ UNCHANGED <<search_ret, spc, outcome>>
       ELSE /\ IF search_elements = <<>>
               THEN /\ search_ret' = [elements |-> <<>>,
                                      span |-> <<matching.start, matching.close>>]
                    /\ outcome' = "no elements"
                    /\ spc' = "done"
               ELSE /\ spc' = "return"
                    /\ UNCHANGED <<search_ret, outcome>>
            /\ UNCHANGED <<stream, groupIdx, search_elements>>
    /\ UNCHANGED <<initPos, parsers, matching, elemVars, refVars, parseVars, initVars, repoVars>>

\* Lines 427-428: stream.seek(closePos) and the return of the elements.
SearchReturn ==
    /\ spc = "return"
    /\ stream' = matching.close
    /\ search_ret' = [elements |-> search_elements,
                      span |-> <<matching.start, matching.close>>]
    /\ outcome' = "matched"
    /\ spc' = "done"
    /\ UNCHANGED <<initPos, parsers, matching, groupIdx, search_elements, elemVars, refVars,
                   parseVars, initVars, repoVars>>

NextSearch ==
    \/ Search
    \/ Group
    \/ SearchReturn

SpecSearch == InitSearch /\ [][NextSearch]_vars

\* ------------------------------------- sphinx_matlab: the elements
\* UnparsedElement(stream, parser, span): a placeholder; yields stands for
\* what self.parser.parse will return for its span (line 107).
Unparsed(ys) ==
    [type |-> "UnparsedElement", token |-> "u", content |-> "UNPARSED",
     span |-> <<0, 1>>, captures |-> <<>>, begin |-> <<>>, end |-> <<>>,
     yields |-> ys]

\* ParsedElementBlock(begin, end, token, grammar, content, span, captures).
Block(tok, cs, bs, es) ==
    [type |-> "ParsedElementBlock", token |-> tok, content |-> "text",
     span |-> <<0, 1>>, captures |-> cs, begin |-> bs, end |-> es, yields |-> <<>>]

\* The elements to_dict is called on.  Leaves are the elements without
\* members: a parsed one, and placeholders whose parse yields no, one or two
\* elements; Members are what a root element is given: leaves, elements with
\* a capture and blocks.
Roots ==
    LET Leaves ==
            { Parsed("t", <<>>), Unparsed(<<>>), Unparsed(<<Parsed("p", <<>>)>>),
              Unparsed(<<Parsed("p", <<>>), Parsed("q", <<>>)>>) }
        AtMostOne(S) == {<<>>} \cup { <<x>> : x \in S }
        Members ==
            Leaves
            \cup { Parsed("c", <<x>>) : x \in Leaves }
            \cup { Block("b", cs, bs, es) :
                     cs \in AtMostOne({Parsed("t", <<>>)}),
                     bs \in AtMostOne({Parsed("t", <<>>),
                                       Unparsed(<<Parsed("p", <<>>)>>)}),
                     es \in AtMostOne({Parsed("t", <<>>)}) }
    IN  { Parsed("r", cs) : cs \in AtMostOne(Members) }
        \cup { Parsed("r", <<x, y>>) : x \in Leaves, y \in Leaves }
        \cup { Block("r", cs, bs, es) :
                 cs \in AtMostOne(Members),
                 bs \in AtMostOne(Leaves
                                  \cup {Block("b", <<>>, <<Parsed("t", <<>>)>>, <<>>)}),
                 es \in AtMostOne(Leaves) }

\* The loop of _parse_unparsed_property (lines 49-54): the elements a
\* placeholder parses to take its place, the others stay.
RECURSIVE parsed_elements(_)
parsed_elements(members) ==
    IF members = <<>> THEN <<>>
    ELSE (IF Head(members).type = "UnparsedElement" THEN Head(members).yields
          ELSE <<Head(members)>>) \o parsed_elements(Tail(members))

\* The properties parse_unparsed goes through (lines 43-45 and 85-89).
props(e) ==
    IF e.type = "ParsedElementBlock" THEN {"captures", "begin", "end"}
    ELSE {"captures"}

\* parse_unparsed: setattr(self, prop, parsed_elements) for each property.
parse_unparsed(e) ==
    [e EXCEPT !.captures = IF "captures" \in props(e) THEN parsed_elements(@) ELSE @,
              !.begin = IF "begin" \in props(e) THEN parsed_elements(@) ELSE @,
              !.end = IF "end" \in props(e) THEN parsed_elements(@) ELSE @]

\* A call to_dict(content=c, parse_unparsed=p), or to_dict(c, p) with the two
\* given by position.
ToDictCall(form, c, p) == [form |-> form, content |-> c, parse_unparsed |-> p]

\* **kwargs of ParsedElementBlock.to_dict(*args, **kwargs), which lines 77
\* and 79 pass on: the arguments given by keyword; the others take the
\* defaults of line 26.
kwargs(a) == IF a.form = "keyword" THEN a ELSE ToDictCall("keyword", TRUE, TRUE)

\* Lines 81-82: the keys of out_dict that are present, in the order token,
\* begin, end, content, captures.  A dict is the sequence of its items.
ordered_dict(d) ==
    LET item(key) == LET has(it) == it[1] = key IN SelectSeq(d, has)
    IN  item("token") \o item("begin") \o item("end") \o item("content")
        \o item("captures")

\* to_dict (lines 26-37 and 74-83): the dict of an element.
RECURSIVE to_dict(_, _)
to_dict(e, a) ==
    LET self == IF a.parse_unparsed THEN parse_unparsed(e) ELSE e
        list(prop, b) ==
            IF prop = <<>> THEN <<>>
            ELSE [i \in 1..Len(prop) |-> to_dict(prop[i], b)]
        out_dict0 ==
            <<<<"token", self.token>>>>
            \o (IF a.content THEN <<<<"content", self.content>>>> ELSE <<>>)
            \o (IF self.captures /= <<>>
                THEN <<<<"captures",
                         list(self.captures, ToDictCall("keyword", a.content, a.parse_unparsed))>>>>
                ELSE <<>>)
    IN  IF e.type = "ParsedElementBlock"
        THEN ordered_dict(
                 out_dict0
                 \o (IF self.begin /= <<>>
                     THEN <<<<"begin", list(self.begin, kwargs(a))>>>> ELSE <<>>)
                 \o (IF self.end /= <<>>
                     THEN <<<<"end", list(self.end, kwargs(a))>>>> ELSE <<>>))
        ELSE out_dict0

\* The element after to_dict(e, a): the lists parse_unparsed has set, in this
\* element and in the members whose to_dict was called.
RECURSIVE after_to_dict(_, _)
after_to_dict(e, a) ==
    LET self == IF a.parse_unparsed THEN parse_unparsed(e) ELSE e
        list(prop, b) ==
            IF prop = <<>> THEN <<>>
            ELSE [i \in 1..Len(prop) |-> after_to_dict(prop[i], b)]
    IN  IF e.type = "ParsedElementBlock"
        THEN [self EXCEPT
                 !.captures = list(@, ToDictCall("keyword", a.content, a.parse_unparsed)),
                 !.begin = list(@, kwargs(a)),
                 !.end = list(@, kwargs(a))]
        ELSE [self EXCEPT
                 !.captures = list(@, ToDictCall("keyword", a.content, a.parse_unparsed))]

\* An element has been constructed.
InitElements ==
    /\ ParseIdle
    /\ InitializeIdle
    /\ RepositoryIdle
    /\ SearchIdle
    /\ ReferenceIdle
    /\ element \in Roots
    /\ out_dict = <<>>
    /\ to_dict_args = ToDictCall("none", TRUE, TRUE)
    /\ before = element

\* element.to_dict(...): the first call made on the element.
ToDict ==
    /\ to_dict_args = ToDictCall("none", TRUE, TRUE)
    /\ \E form \in {"keyword", "positional"}, c \in BOOLEAN, p \in BOOLEAN :
          LET a == ToDictCall(form, c, p) IN
          /\ to_dict_args' = a
          /\ out_dict' = to_dict(element, a)
          /\ element' = after_to_dict(element, a)
    /\ before' = element
    /\ UNCHANGED <<searchVars, refVars, parseVars, initVars, repoVars>>

\* element.print(): pprint(self.to_dict(), sort_dicts=False, width=150).
PrintElement ==
    /\ to_dict_args = ToDictCall("none", TRUE, TRUE)
    /\ to_dict_args' = ToDictCall("print", TRUE, TRUE)
    /\ out_dict' = to_dict(element, ToDictCall("keyword", TRUE, TRUE))
    /\ element' = after_to_dict(element, ToDictCall("keyword", TRUE, TRUE))
    /\ before' = element
    /\ UNCHANGED <<searchVars, refVars, parseVars, initVars, repoVars>>

NextElements ==
    \/ ToDict
    \/ PrintElement

SpecElements == InitElements /\ [][NextElements]_vars

\* ------------------------------------------- GrammarParser.initialize
\* The keys of a grammar dict that initialize looks at, and one it does not.
GrammarKeys == {"include", "match", "begin", "end", "while", "patterns", "name"}

\* GrammarParser.initialize (lines 18-32) with the two begin rules exchanged.
initialize_WhileBeforeEnd(g) ==
    IF "include" \in g THEN "include"
    ELSE IF "match" \in g THEN "MatchParser"
    ELSE IF "begin" \in g /\ "while" \in g THEN "BeginWhileParser"
    ELSE IF "begin" \in g /\ "end" \in g THEN "BeginEndParser"
    ELSE IF "patterns" \in g THEN "PatternsParser"
    ELSE "TokenParser"

\* GrammarParser.initialize (lines 18-32): the class of the parser built for
\* the grammar g, or "include" for the string grammar["include"] itself.
initialize(g) ==
    IF "include" \in g THEN "include"
    ELSE IF "match" \in g THEN "MatchParser"
    ELSE IF "begin" \in g /\ "end" \in g THEN "BeginEndParser"
    ELSE IF "begin" \in g /\ "while" \in g THEN "BeginWhileParser"
    ELSE IF "patterns" \in g THEN "PatternsParser"
    ELSE "TokenParser"

InitInitialize ==
    /\ ParseIdle
    /\ RepositoryIdle
    /\ SearchIdle
    /\ ElementIdle
    /\ ReferenceIdle
    /\ grammar \in SUBSET GrammarKeys
    /\ result = NotCalled

\* One call GrammarParser.initialize(grammar).
GrammarInitialize ==
    /\ result = NotCalled
    /\ result' = initialize(grammar)
    /\ UNCHANGED <<grammar, parseVars, repoVars, searchVars, elemVars, refVars>>

NextInitialize == GrammarInitialize

SpecInitialize == InitInitialize /\ [][NextInitialize]_vars

\* ------------------------------------------------- initialize_repository
\* The parsers: the language (the root, a subclass of PatternsParser), two
\* entries A and B of its repository, and m, which stands for the inline
\* MatchParsers without captures (they are never spliced and hold nothing,
\* so one name serves for all of them).
Ids == {"L", "A", "B", "m"}

\* The names of language.repository; "#X" names no entry.
Repository == {"A", "B"}

\* The include strings GrammarParser.initialize leaves in a list or a map.
Includes == {"#A", "#B", "#X", "$self"}

\* What a patterns list holds after __init__.
Entries == Includes \cup {"m"}

\* What a capture map holds after _init_captures.
CaptureEntries == {"#B", "#X"}

Lists(S, n) == UNION { [1..k -> S] : k \in 0..n }

Range(f) == { f[k] : k \in DOMAIN f }

\* A parser object; a class keeps the maps it has, the others are empty.
Parser(k, ps, cs, pb, pe, pw) ==
    [kind |-> k, initialized |-> FALSE, patterns |-> ps, parsers |-> cs,
     parsers_begin |-> pb, parsers_end |-> pe, parsers_while |-> pw]

PlainParsers ==
    { Parser("Patterns", ps, <<>>, <<>>, <<>>, <<>>) :
        ps \in Lists(Entries, MaxPatterns) }

MatchParsers ==
    { Parser("Match", <<>>, cs, <<>>, <<>>, <<>>) :
        cs \in Lists(CaptureEntries, MaxInner) }

BeginEndParsers ==
    { Parser("BeginEnd", ps, <<>>, pb, pe, <<>>) :
        ps \in Lists(Entries, MaxInner),
        pb \in Lists(CaptureEntries, MaxInner),
        pe \in Lists(CaptureEntries, MaxInner) }

BeginWhileParsers ==
    { Parser("BeginWhile", ps, <<>>, pb, <<>>, pw) :
        ps \in Lists(Entries, MaxInner),
        pb \in Lists(CaptureEntries, MaxInner),
        pw \in Lists(CaptureEntries, MaxInner) }

\* The language: its patterns start with an include of the entry A.
LanguageParsers ==
    { Parser("Language", <<"#A">> \o ps, <<>>, <<>>, <<>>, <<>>) :
        ps \in Lists(Entries, MaxInner) }

\* The classes whose initialize_repository is PatternsParser's, or begins
\* with it through super().
HasPatterns(k) == k \in {"Language", "Patterns", "BeginEnd", "BeginWhile"}

\* isinstance(value, GrammarParser)
IsParser(e) == e \in Ids

\* GrammarParser._find_include (lines 56-66) with a language: the parser an
\* include string names, None for a name the repository does not have.
_find_include(key) ==
    IF key = "$self" THEN "L"
    ELSE IF key = "#A" /\ "A" \in Repository THEN "A"
    ELSE IF key = "#B" /\ "B" \in Repository THEN "B"
    ELSE NoParser

\* One pass of "value if isinstance(value, GrammarParser) else
\* self._find_include(value)" over a list or over the values of a map.
Resolve(es) == [k \in DOMAIN es |-> IF IsParser(es[k]) THEN es[k] ELSE _find_include(es[k])]

\* _find_include raises at "if not self.language" (line 58) for the first
\* value of es that is not a parser.
ResolveRaises(es) == language = NoParser /\ \E k \in DOMAIN es : ~IsParser(es[k])

\* "if not parser.initialized" with the test left out.
NeedsInit_Always(p) == TRUE

\* "if not parser.initialized" (lines 171, 230, 345, 348).
NeedsInit(p) == ~repo[p].initialized

\* list.index
index(ps, p) == CHOOSE k \in 1..Len(ps) : ps[k] = p /\ \A j \in 1..(k - 1) : ps[j] /= p

\* type(parser) == PatternsParser
IsPlainPatterns(e) == IsParser(e) /\ repo[e].kind = "Patterns"

\* Lines 235-236: parser is replaced, at its first position in the list ps,
\* by its own patterns as they are at that moment.
Splice(ps, parser) ==
    SubSeq(ps, 1, index(ps, parser) - 1) \o repo[parser].patterns
        \o SubSeq(ps, index(ps, parser) + 1, Len(ps))

\* The frame of one initialize_repository call: the parser, the statement it
\* is at, the index of a for loop and the local list pattern_parsers.
Frame(p, pc0) == [self |-> p, pc |-> pc0, i |-> 1, pattern_parsers |-> <<>>]

Top == stack[Len(stack)]

SetTop(f) == [stack EXCEPT ![Len(stack)] = f]

\* The first statement after "self.initialized = True" in the class of p.
FirstStatement(p) == IF HasPatterns(repo[p].kind) THEN "resolve" ELSE "resolve_captures"

\* The list a for loop of recursive calls walks, by the statement.
LoopList(f) ==
    CASE f.pc = "recurse"         -> repo[f.self].patterns
      [] f.pc = "recurse_parsers" -> repo[f.self].parsers
      [] f.pc = "recurse_begin"   -> repo[f.self].parsers_begin
      [] f.pc = "recurse_end"     -> repo[f.self].parsers_end

\* The statement after a for loop of recursive calls.
AfterLoop(f) ==
    CASE f.pc = "recurse"         -> "flatten"
      [] f.pc = "recurse_parsers" -> "return"
      [] f.pc = "recurse_begin"   -> "recurse_end"
      [] f.pc = "recurse_end"     -> "return"

\* The statement after PatternsParser.initialize_repository, which is the
\* whole method for a plain parser and super() for the begin parsers.
AfterSuper(k) ==
    CASE k = "BeginEnd"   -> "resolve_captures"
      [] k = "BeginWhile" -> "parsers_end"
      [] OTHER            -> "return"

\* An exception leaves every frame of the walk.
Raise(e) ==
    /\ stack' = <<>>
    /\ error' = e

\* The parser objects after the construction of the language: the entry A
\* is of any class, the entry B a short plain parser or a MatchParser.
Parsers(l, a, b) ==
    [p \in Ids |-> CASE p = "L" -> l
                    [] p = "A" -> a
                    [] p = "B" -> b
                    [] p = "m" -> Parser("Match", <<>>, <<>>, <<>>, <<>>, <<>>)]

\* No parser object exists yet.
InitRepository ==
    /\ ParseIdle
    /\ InitializeIdle
    /\ RepositoryIdle
    /\ SearchIdle
    /\ ElementIdle
    /\ ReferenceIdle

\* The construction of the parsers from the grammar (the __init__ methods,
\* lines 34-43, 149-154, 219-221, 312-326, 589-601), with a language or
\* without one.
Construct ==
    /\ DOMAIN repo = {}
    /\ language' \in {"L", NoParser}
    /\ \E l \in LanguageParsers,
          a \in PlainParsers \cup MatchParsers \cup BeginEndParsers
                  \cup BeginWhileParsers,
          b \in { q \in PlainParsers \cup MatchParsers :
                    Len(q.patterns) <= MaxInner } :
            repo' = Parsers(l, a, b)
    /\ entered' = [p \in Ids |-> 0]
    /\ UNCHANGED <<stack, error, round, snapshot, parseVars, initVars,
                   searchVars, elemVars, refVars>>

\* language.initialize_repository(), the call on the root.
RepoCall ==
    /\ DOMAIN repo /= {}
    /\ stack = <<>>
    /\ error = NoError
    /\ round < MaxRounds
    /\ round' = round + 1
    /\ snapshot' = repo
    /\ entered' = [p \in Ids |-> IF p = "L" THEN 1 ELSE 0]
    /\ repo' = [repo EXCEPT !["L"].initialized = TRUE]
    /\ stack' = <<Frame("L", FirstStatement("L"))>>
    /\ UNCHANGED <<language, error, parseVars, initVars,
                   searchVars, elemVars, refVars>>

\* Lines 226-228: self.patterns = [parser or self._find_include(parser)].
ResolvePatterns ==
    /\ stack /= <<>>
    /\ Top.pc = "resolve"
    /\ IF ResolveRaises(repo[Top.self].patterns)
          THEN Raise("IncludedParserNotFound") /\ UNCHANGED repo
          ELSE /\ repo' = [repo EXCEPT ![Top.self].patterns = Resolve(@)]
               /\ stack' = SetTop([Top EXCEPT !.pc = "recurse", !.i = 1])
               /\ UNCHANGED error
    /\ UNCHANGED <<language, entered, round, snapshot, parseVars, initVars,
                   searchVars, elemVars, refVars>>

\* One round of a loop "for parser in ...: if not parser.initialized:
\* parser.initialize_repository()" (lines 170-172, 229-231, 344-349): the
\* end of the loop, a value that is None, a call, or a parser passed over.
Recurse ==
    /\ stack /= <<>>
    /\ Top.pc \in {"recurse", "recurse_parsers", "recurse_begin", "recurse_end"}
    /\ LET f == Top
           ps == LoopList(f)
       IN  IF f.i > Len(ps)
             THEN /\ stack' = SetTop([f EXCEPT !.pc = AfterLoop(f), !.i = 1])
                  /\ UNCHANGED <<repo, error, entered>>
           ELSE IF ps[f.i] = NoParser
             THEN /\ Raise("AttributeError: 'NoneType' object has no attribute 'initialized'")
                  /\ UNCHANGED <<repo, entered>>
           ELSE IF NeedsInit(ps[f.i])
             THEN /\ Len(stack) < MaxDepth
                  /\ repo' = [repo EXCEPT ![ps[f.i]].initialized = TRUE]
                  /\ entered' = [entered EXCEPT ![ps[f.i]] = @ + 1]
                  /\ stack' = Append(stack, Frame(ps[f.i], FirstStatement(ps[f.i])))
                  /\ UNCHANGED error
           ELSE /\ stack' = SetTop([f EXCEPT !.i = f.i + 1])
                /\ UNCHANGED <<repo, error, entered>>
    /\ UNCHANGED <<language, round, snapshot, parseVars, initVars,
                   searchVars, elemVars, refVars>>

\* Line 233: pattern_parsers, the children whose type is PatternsParser
\* itself, in the order of the list.
FlattenPatterns ==
    /\ stack /= <<>>
    /\ Top.pc = "flatten"
    /\ stack' = SetTop([Top EXCEPT !.pc = "splice",
                                   !.pattern_parsers = SelectSeq(repo[Top.self].patterns, IsPlainPatterns)])
    /\ UNCHANGED <<repo, language, error, entered, round, snapshot, parseVars, initVars,
                   searchVars, elemVars, refVars>>

\* Lines 234-236: one round of the loop over pattern_parsers, or its end.
SplicePatterns ==
    /\ stack /= <<>>
    /\ Top.pc = "splice"
    /\ IF Top.pattern_parsers = <<>>
          THEN /\ stack' = SetTop([Top EXCEPT !.pc = AfterSuper(repo[Top.self].kind)])
               /\ UNCHANGED repo
          ELSE /\ repo' = [repo EXCEPT ![Top.self].patterns = Splice(@, Head(Top.pattern_parsers))]
               /\ stack' = SetTop([Top EXCEPT !.pattern_parsers = Tail(@)])
    /\ UNCHANGED <<language, error, entered, round, snapshot, parseVars, initVars,
                   searchVars, elemVars, refVars>>

\* Lines 167-169 of MatchParser and lines 339-344 of BeginEndParser: the
\* values of the capture maps are resolved in place.
ResolveCaptures ==
    /\ stack /= <<>>
    /\ Top.pc = "resolve_captures"
    /\ LET p == repo[Top.self]
       IN  IF p.kind = "Match"
             THEN IF ResolveRaises(p.parsers)
                    THEN Raise("IncludedParserNotFound") /\ UNCHANGED repo
                    ELSE /\ repo' = [repo EXCEPT ![Top.self].parsers = Resolve(@)]
                         /\ stack' = SetTop([Top EXCEPT !.pc = "recurse_parsers", !.i = 1])
                         /\ UNCHANGED error
             ELSE IF ResolveRaises(p.parsers_end) \/ ResolveRaises(p.parsers_begin)
                    THEN Raise("IncludedParserNotFound") /\ UNCHANGED repo
                    ELSE /\ repo' = [repo EXCEPT ![Top.self].parsers_end = Resolve(@),
                                                 ![Top.self].parsers_begin = Resolve(@)]
                         /\ stack' = SetTop([Top EXCEPT !.pc = "recurse_begin", !.i = 1])
                         /\ UNCHANGED error
    /\ UNCHANGED <<language, entered, round, snapshot, parseVars, initVars,
                   searchVars, elemVars, refVars>>

\* Line 613 of BeginWhileParser.initialize_repository reads self.parsers_end,
\* an attribute BeginWhileParser.__init__ (lines 589-601) never sets.
WhileParsersEnd ==
    /\ stack /= <<>>
    /\ Top.pc = "parsers_end"
    /\ Raise("AttributeError: 'BeginWhileParser' object has no attribute 'parsers_end'")
    /\ UNCHANGED <<repo, language, entered, round, snapshot, parseVars, initVars,
                   searchVars, elemVars, refVars>>

\* The end of an initialize_repository call: back in the caller's loop.
Return ==
    /\ stack /= <<>>
    /\ Top.pc = "return"
    /\ LET rest == SubSeq(stack, 1, Len(stack) - 1)
       IN  stack' = IF rest = <<>> THEN rest
                    ELSE [rest EXCEPT ![Len(rest)].i = @ + 1]
    /\ UNCHANGED <<repo, language, error, entered, round, snapshot, parseVars, initVars,
                   searchVars, elemVars, refVars>>

NextRepository ==
    \/ Construct
    \/ RepoCall
    \/ ResolvePatterns
    \/ Recurse
    \/ FlattenPatterns
    \/ SplicePatterns
    \/ ResolveCaptures
    \/ WhileParsersEnd
    \/ Return

SpecRepository == InitRepository /\ [][NextRepository]_vars

\* The statements of a running initialize_repository call.
Statement ==
    \/ ResolvePatterns
    \/ Recurse
    \/ FlattenPatterns
    \/ SplicePatterns
    \/ ResolveCaptures
    \/ WhileParsersEnd
    \/ Return

\* A running call runs its next statement: the interpreter does not stop
\* inside a call.
SpecRepositoryFair == SpecRepository /\ WF_vars(Statement)

\* ================================================================= claims
ChildTokens == {"c", "b", "e"}

InSearchSet(p) == \E i \in 1..Len(patterns) : patterns[i] = p

\* C1: when the arbitration loop of BeginEndParser._parse runs out without an
\* accepted end match, the block is closed at boundary (closing = boundary,
\* end_span = (None, boundary)), a warning is emitted and the partial block is
\* returned with parsed = true.
C1_ExhaustedClosesWithWarning ==
    (kind = "BeginEnd" /\ pc = "done" /\ branch = "exhausted") =>
        /\ closing = boundary
        /\ end_span = <<None, boundary>>
        /\ ret.parsed
        /\ warnings /= {}

\* C2: every element of the captures list of a block emitted by
\* BeginEndParser._parse has a span inside the block's content range
\* [start, closing], in every closing branch.
C2_CapturesInsideBlock ==
    (kind = "BeginEnd" /\ pc = "done" /\ ret.parsed /\ token /= "") =>
        LET block == ret.elements[1] IN
        \A i \in 1..Len(block.captures) :
            /\ PosLE(block.span[1], block.captures[i].span[1])
            /\ PosLE(block.captures[i].span[2], block.span[2])

\* C3: PatternsParser._parse with find_one = false goes into another iteration
\* only when the pass before moved current: a pass that ends where it began
\* ends the loop.
C3_StalledPassEndsLoop ==
    (kind = "Patterns" /\ ~find_one /\ pc = "pp_while" /\ iter > 0) =>
        current /= passStart

\* C4: within one PatternsParser._parse call and within one arbitration loop
\* of BeginEndParser._parse the accepted children do not overlap and their
\* elements are appended in position order: each accepted span starts at or
\* after the end of the one accepted before it.
C4_SiblingsInOrder ==
    /\ \A i \in 1..(Len(accepted) - 1) : PosLE(accepted[i][2], accepted[i + 1][1])
    /\ \A i \in 1..(Len(elements) - 1) :
          PosLE(elements[i].span[2], elements[i + 1].span[1])
    /\ \A i \in 1..(Len(mid_elements) - 1) :
          PosLE(mid_elements[i].span[2], mid_elements[i + 1].span[1])

C4_Witness ==
    /\ kind = "BeginEnd" /\ pc = "done"
    /\ Len(mid_elements) = 2
    /\ PosLT(mid_elements[1].span[1], mid_elements[1].span[2])
    /\ PosLT(mid_elements[2].span[1], mid_elements[2].span[2])

\* C5, as claimed: no element with an empty token is in the output of any
\* parser kind.
C5_NoEmptyTokenInOutput ==
    pc = "done" => \A i \in 1..Len(ret.elements) : ret.elements[i].token /= ""

\* C5, amended: a MatchParser, a PatternsParser or a BeginEndParser never puts
\* an element with an empty token of its own in its output; with an empty token
\* its output is the elements of its children alone, with a token it is one
\* element of that token.  A TokenParser always emits one element of its
\* token, empty or not.
C5_EmptyTokenOnlyFromTokenParser ==
    pc = "done" =>
        /\ kind = "Token" => ret.elements = <<Leaf(token, <<starting, boundary>>)>>
        /\ kind = "Patterns" =>
              \A i \in 1..Len(ret.elements) : ret.elements[i].token \in ChildTokens
        /\ (kind \in {"Match", "BeginEnd"} /\ token = "") =>
              \A i \in 1..Len(ret.elements) : ret.elements[i].token \in ChildTokens
        /\ (kind \in {"Match", "BeginEnd"} /\ token /= "" /\ ret.parsed) =>
              Len(ret.elements) = 1 /\ ret.elements[1].token = token

C5_Witness ==
    /\ pc = "done" /\ kind = "BeginEnd" /\ token = ""
    /\ ret.parsed
    /\ Len(ret.elements) = 3

\* C6: a result of BeginEndParser._parse with parsed = true either follows an
\* accepted end match whose span lies inside the returned span, or no end match
\* was accepted and the returned span ends at boundary.
C6_EndInsideOrAtBoundary ==
    (kind = "BeginEnd" /\ pc = "done" /\ ret.parsed) =>
        \/ /\ Closes(branch)
           /\ PosLE(ret.span[1], end_span[1])
           /\ PosLE(end_span[1], end_span[2])
           /\ PosLE(end_span[2], ret.span[2])
        \/ /\ branch = "exhausted"
           /\ ret.span[2] = boundary

C6_Witness ==
    /\ kind = "BeginEnd" /\ pc = "done" /\ ret.parsed
    /\ Closes(branch)
    /\ between_content
    /\ PosLT(end_span[1], end_span[2])

\* C7: in every branch that closes at an end match, closing is end_span.start
\* with between_content and end_span.end without, and the content range of the
\* block is [begin_span.end, end_span.start] with between_content and
\* [begin_span.start, end_span.end] without.
C7_ContentRange ==
    (kind = "BeginEnd" /\ pc = "done" /\ Closes(branch)) =>
        /\ closing = (IF between_content THEN end_span[1] ELSE end_span[2])
        /\ token /= "" =>
              ret.elements[1].span =
                 (IF between_content THEN <<begin_span[2], end_span[1]>>
                  ELSE <<begin_span[1], end_span[2]>>)

C7_Witness ==
    /\ kind = "BeginEnd" /\ pc = "done" /\ Closes(branch)
    /\ between_content /\ token /= ""
    /\ PosLT(begin_span[1], begin_span[2])
    /\ PosLT(end_span[1], end_span[2])
    /\ mid_elements /= <<>>

\* C8, as claimed: in every iteration of PatternsParser._parse the first pass
\* over the patterns is made with allow_leading_all = false, whatever the caller
\* passed; the second pass, with allow_leading_all = true, is made only when
\* find_one is false and the caller passed false.
C8_FirstPassWithoutLeading ==
    kind = "Patterns" =>
        \A i \in 1..Len(calls) :
            /\ i <= Len(patterns) => ~calls[i].la
            /\ i > Len(patterns) => calls[i].la /\ ~find_one /\ ~allow_leading_all

\* C8, amended: in every iteration the first pass tries the patterns in
\* declaration order with the allow_leading_all the caller passed and ends at
\* the first that succeeds; the second pass, in the same order with
\* allow_leading_all = true, is made only when no pattern succeeded, find_one
\* is false and the caller passed false.
C8_FirstPassWithCallersLeading ==
    kind = "Patterns" =>
        LET n == Len(patterns)
            k == Len(calls)
        IN  /\ k <= 2 * n
            /\ \A i \in 1..k :
                  /\ calls[i].parser = patterns[IF i <= n THEN i ELSE i - n]
                  /\ calls[i].at = passStart
                  /\ i < k => ~calls[i].parsed
                  /\ i <= n => calls[i].la = allow_leading_all
                  /\ i > n => calls[i].la /\ ~find_one /\ ~allow_leading_all

C8_Witness ==
    /\ kind = "Patterns" /\ pc = "pp_check"
    /\ allow_leading_all
    /\ Len(calls) = 2
    /\ calls[2].parsed /\ calls[2].la
    /\ PosLT(passStart, calls[2].span[1])

\* C9: with find_one = true PatternsParser._parse calls the patterns in
\* declaration order at starting, returns the elements and the span of the
\* first that succeeds and calls none after it; when none succeeds in that one
\* pass it returns not parsed, without elements and without a second pass.
C9_FindOneFirstChild ==
    (kind = "Patterns" /\ find_one /\ pc = "done") =>
        LET n == Len(patterns)
            k == Len(calls)
        IN  /\ k <= n
            /\ \A i \in 1..k :
                  /\ calls[i].parser = patterns[i]
                  /\ calls[i].at = starting
                  /\ calls[i].la = allow_leading_all
                  /\ i < k => ~calls[i].parsed
            /\ IF k > 0 /\ calls[k].parsed
               THEN ret = [parsed |-> TRUE, elements |-> calls[k].elements,
                           span |-> calls[k].span]
               ELSE /\ k \in {0, n}
                    /\ ~ret.parsed
                    /\ ret.elements = <<>>

C9_Witness ==
    /\ kind = "Patterns" /\ find_one /\ pc = "done"
    /\ Len(calls) = 2
    /\ calls[2].parsed
    /\ ret.elements /= <<>>

\* C10, as claimed: the injected patterns are in the search set of
\* PatternsParser._parse exactly when injections is true, for either value of
\* find_one.
C10_InjectedIffInjections ==
    (kind = "Patterns" /\ pc /= "start") =>
        \A i \in 1..Len(injected_patterns) :
            InSearchSet(injected_patterns[i]) <=> injections

\* C10, amended: the injected patterns are in the search set, after the enabled
\* patterns of the parser, exactly when injections is true or find_one is true.
C10_InjectedIffInjectionsOrFindOne ==
    (kind = "Patterns" /\ pc /= "start") =>
        /\ \A i \in 1..Len(injected_patterns) :
              InSearchSet(injected_patterns[i]) <=> (injections \/ find_one)
        /\ patterns = SelectSeq(self_patterns, NotDisabled)
                      \o (IF injections \/ find_one THEN injected_patterns ELSE <<>>)

C10_Witness ==
    /\ kind = "Patterns" /\ pc = "done"
    /\ find_one /\ ~injections
    /\ calls /= <<>>
    /\ calls[Len(calls)].parser = "INJ"
    /\ calls[Len(calls)].parsed

\* C11: PatternsParser._parse with find_one = false returns
\* (any_matched, elements, (starting, current)): any_matched is true exactly
\* when a child succeeded during the call, and current is the end of the span
\* of the last accepted child, or starting when there was none.
C11_PatternsResult ==
    (kind = "Patterns" /\ ~find_one /\ pc = "done") =>
        /\ ret.parsed <=> (accepted /= <<>>)
        /\ ret.elements = elements
        /\ Len(ret.elements) = Len(accepted)
        /\ ret.span = <<starting, IF accepted = <<>> THEN starting
                                  ELSE accepted[Len(accepted)][2]>>

C11_Witness ==
    /\ kind = "Patterns" /\ ~find_one /\ pc = "done"
    /\ Len(accepted) = 1
    /\ ~parsed
    /\ ret.parsed

\* C12: MatchParser._parse returns (false, [], none) when the regex does not
\* match; when it matches it returns the span of the match and, with a token,
\* one element of that token whose content is the matched text and whose
\* captures are the captures of the match, without a token the captures
\* themselves.
C12_MatchResult ==
    (kind = "Match" /\ pc = "done") =>
        LET m == calls[1] IN
        IF ~m.parsed
        THEN ret = [parsed |-> FALSE, elements |-> <<>>, span |-> None]
        ELSE /\ ret.parsed
             /\ ret.span = m.span
             /\ IF token /= ""
                THEN /\ Len(ret.elements) = 1
                     /\ ret.elements[1].token = token
                     /\ ret.elements[1].content = read_pos(m.span[1], m.span[2])
                     /\ ret.elements[1].captures = m.elements
                     /\ ret.elements[1].span = m.span
                ELSE ret.elements = m.elements

C12_Witness ==
    /\ kind = "Match" /\ pc = "done" /\ token /= ""
    /\ ret.parsed
    /\ ret.elements[1].content = <<"a">>
    /\ PosLT(ret.span[2], Bnd(boundary))

\* Python's ==: an int is never equal to a tuple.
AnchorIs(p) == IF anchor \in Int THEN FALSE ELSE anchor = p

\* C13, as claimed: after TokenParser._parse handler.anchor is the position
\* boundary, line and column, and the one element emitted spans
\* [starting, boundary].
C13_AnchorIsBoundary ==
    (kind = "Token" /\ pc = "done") =>
        /\ AnchorIs(boundary)
        /\ ret.parsed
        /\ Len(ret.elements) = 1
        /\ ret.elements[1].span = <<starting, boundary>>

\* C13, amended: after TokenParser._parse handler.anchor is the column of
\* boundary, and the one element emitted spans [starting, boundary].
C13_AnchorIsBoundaryColumn ==
    (kind = "Token" /\ pc = "done") =>
        /\ anchor = boundary[2]
        /\ ret.parsed
        /\ Len(ret.elements) = 1
        /\ ret.elements[1].span = <<starting, boundary>>
        /\ ret.span = <<starting, boundary>>

C13_Witness ==
    /\ kind = "Token" /\ pc = "done"
    /\ boundary = <<1, 0>>
    /\ anchor = 0

\* C20: in BeginEndParser._parse the patterns whose anchored flag is set are
\* tried in the first iteration of the loop only; the drop is local to the
\* call: self.patterns keeps them, and the next call tries them again in its
\* first iteration.
C20_AnchoredFirstIterationOnly ==
    /\ self_patterns = PatternsOf("BeginEnd")
    /\ iter >= 2 =>
          /\ \A i \in 1..Len(patterns) : ~anchored(patterns[i])
          /\ \A i \in 1..Len(calls) : ~anchored(calls[i].parser)
    /\ (iter = 1 /\ pc \in {"be_for1", "be_end1", "be_for2", "be_end2", "be_decide"}) =>
          /\ first_run
          /\ patterns = SelectSeq(self_patterns, NotDisabled)
          /\ \E i \in 1..Len(patterns) : anchored(patterns[i])
          /\ \A i \in 1..Len(calls) :
                calls[i].parser = "END" \/ \E j \in 1..Len(patterns) : calls[i].parser = patterns[j]

C20_Witness ==
    /\ invocation = 2
    /\ iter = 1
    /\ \E i \in 1..Len(calls) : anchored(calls[i].parser) /\ calls[i].parsed

\* C14: GrammarParser.initialize maps a grammar dict to one result by the
\* first rule that applies, in this order: include, the include string
\* itself; match, a MatchParser; begin and end, a BeginEndParser; begin and
\* while, a BeginWhileParser; patterns, a PatternsParser; otherwise a
\* TokenParser.
C14_InitializeDispatch ==
    result /= NotCalled =>
        LET inc == "include" \in grammar
            mat == "match" \in grammar
            be  == "begin" \in grammar /\ "end" \in grammar
            bw  == "begin" \in grammar /\ "while" \in grammar
            pat == "patterns" \in grammar
        IN  /\ inc => result = "include"
            /\ (~inc /\ mat) => result = "MatchParser"
            /\ (~inc /\ ~mat /\ be) => result = "BeginEndParser"
            /\ (~inc /\ ~mat /\ ~be /\ bw) => result = "BeginWhileParser"
            /\ (~inc /\ ~mat /\ ~be /\ ~bw /\ pat) => result = "PatternsParser"
            /\ (~inc /\ ~mat /\ ~be /\ ~bw /\ ~pat) => result = "TokenParser"

C14_Witness ==
    /\ grammar = {"begin", "end", "while", "patterns", "name"}
    /\ result = "BeginEndParser"

\* The walk a call on the root started has ended, by a return or an exception.
WalkEnded == round > 0 /\ stack = <<>>

\* Everything a parser holds in its patterns list and its capture maps.
Held(r, p) ==
    Range(r[p].patterns) \cup Range(r[p].parsers) \cup Range(r[p].parsers_begin)
        \cup Range(r[p].parsers_end) \cup Range(r[p].parsers_while)

\* The parsers within n steps of the root.
RECURSIVE ReachableIn(_)
ReachableIn(n) ==
    IF n = 0 THEN {"L"}
    ELSE LET R == ReachableIn(n - 1)
         IN  R \cup { q \in Ids : \E p \in R : q \in Held(repo, p) }

Reachable == ReachableIn(Cardinality(Ids))

\* A lookup of a name the repository does not have has been made.
MissingMet == \E p \in Ids : NoParser \in Held(repo, p)

\* The lists and maps of every parser.
Graph(r) ==
    [p \in Ids |-> <<r[p].patterns, r[p].parsers, r[p].parsers_begin,
                     r[p].parsers_end, r[p].parsers_while>>]

\* C15: during initialize_repository an include #name whose name is absent
\* from the repository of the language ends the walk with the error
\* IncludedParserNotFound, in a patterns list and in a capture map alike.
C15_MissingIncludeNotFound ==
    (WalkEnded /\ MissingMet) => error = "IncludedParserNotFound"

\* C16: a second initialize_repository call on the root leaves the patterns
\* list and the capture maps of every parser as the first call left them.
C16_SecondCallNoOp ==
    (WalkEnded /\ round = 2 /\ error = NoError) => Graph(repo) = Graph(snapshot)

\* C17: once initialize_repository has run on a root whose includes all name
\* entries of the repository, it has completed and every entry of every
\* patterns list and capture map of every reachable parser, a
\* BeginWhileParser included, is a parser and no include string.
C17_NoUnresolvedReachable ==
    (WalkEnded /\ language /= NoParser /\ ~MissingMet) =>
        /\ error = NoError
        /\ \A p \in Reachable : Held(repo, p) \subseteq Ids

\* C18: the walk initialize_repository starts at the root enters the
\* initialization of each parser at most once, also on a repository with
\* cycles through #name or $self, and it comes to an end.
C18_EnteredOnceAndTerminates ==
    /\ [](\A p \in DOMAIN entered : entered[p] <= 1)
    /\ ((stack /= <<>>) ~> (stack = <<>>))

C18_Witness ==
    /\ WalkEnded
    /\ error = NoError
    /\ "A" \in Range(repo["A"].patterns)
    /\ "L" \in Range(repo["B"].patterns)
    /\ entered = [p \in Ids |-> IF p = "m" THEN 0 ELSE 1]

\* C19: after initialize_repository the patterns list of a PatternsParser or
\* of a BeginEndParser has no direct child that is a plain PatternsParser.
C19_NoPlainPatternsChild ==
    (WalkEnded /\ error = NoError) =>
        \A p \in Reachable :
            repo[p].kind \in {"Language", "Patterns", "BeginEnd"} =>
                \A k \in DOMAIN repo[p].patterns : ~IsPlainPatterns(repo[p].patterns[k])

\* An iteration of the arbitration loop has a capture and an end match.
CaptureAndEnd == pc = "be_decide" /\ end_span /= None /\ parsed

\* The pattern-at-end branch of lines 449-480 applies.
AtEndApplies == pattern_at_end /\ (end_before_pattern \/ empty_span_end)

\* C28: with a capture and an end match, pattern-at-end and an empty end
\* span, the capture's elements are appended to the block's captures and the
\* block closes at the end span in that iteration, whatever the flags
\* apply_end_pattern_last are.
C28_BothAccepted ==
    [][(CaptureAndEnd /\ pattern_at_end /\ empty_span_end) =>
          /\ mid_elements' = mid_elements \o capture_elements
          /\ closing' = end_span[1]
          /\ end_span' = end_span
          /\ pc' = "be_emit"]_vars

C28_Witness ==
    /\ pc = "be_emit"
    /\ branch = "both accepted"
    /\ self_apl /\ apl
    /\ capture_elements /= <<>>
    /\ mid_elements = capture_elements

\* C29 as stated: with a capture and a non-empty end match, pattern-at-end
\* and the end starting at or before the capture, the block closes at the end
\* span without the capture iff neither flag is set; otherwise the capture is
\* appended, current becomes the end of the capture and the loop continues.
C29_EndPrioritizedUnlessFlag ==
    [][(CaptureAndEnd /\ pattern_at_end /\ ~empty_span_end /\ end_before_pattern) =>
          IF ~self_apl /\ ~apl
          THEN /\ mid_elements' = mid_elements
               /\ closing' = (IF between_content THEN end_span[1] ELSE end_span[2])
               /\ pc' = "be_emit"
          ELSE /\ mid_elements' = mid_elements \o capture_elements
               /\ current' = capture_span[2]
               /\ pc' = "be_while"]_vars

\* C29 amended: as above, but when the flag of the iteration is set (the
\* capture came from the parser itself) current becomes the position after
\* the end of the capture.
C29_EndPrioritizedUnlessFlagThenStep ==
    [][(CaptureAndEnd /\ pattern_at_end /\ ~empty_span_end /\ end_before_pattern) =>
          IF ~self_apl /\ ~apl
          THEN /\ mid_elements' = mid_elements
               /\ closing' = (IF between_content THEN end_span[1] ELSE end_span[2])
               /\ pc' = "be_emit"
          ELSE /\ mid_elements' = mid_elements \o capture_elements
               /\ current' = (IF apl THEN handler_next(capture_span[2])
                              ELSE capture_span[2])
               /\ pc' = "be_while"]_vars

C29_Witness ==
    /\ pc = "be_while"
    /\ branch = "capture prioritized"
    /\ apl /\ ~self_apl
    /\ current = handler_next(capture_span[2])
    /\ current /= capture_span[2]

\* C30: with a capture and an end match where the pattern-at-end branch does
\* not apply, the capture is appended and the loop continues iff the capture
\* starts before the end match; otherwise the block closes at the end span
\* and the capture's elements are not added.
C30_LeadingCaptureOrEnd ==
    [][(CaptureAndEnd /\ ~AtEndApplies) =>
          IF PosLT(capture_span[1], end_span[1])
          THEN /\ mid_elements' = mid_elements \o capture_elements
               /\ pc' = "be_while"
               /\ closing' = closing
          ELSE /\ mid_elements' = mid_elements
               /\ closing' = (IF between_content THEN end_span[1] ELSE end_span[2])
               /\ pc' = "be_emit"]_vars

C30_Witness ==
    /\ pc = "be_emit"
    /\ branch = "leading end"
    /\ capture_span[1] = end_span[1]
    /\ capture_elements /= <<>>
    /\ mid_elements = <<>>

\* C23: no _parse call ends with an exception; a call that matched nothing
\* returns (False, [], None), also the call of a begin/while parser.
C23_FailedMatchIsReportedNotRaised ==
    /\ error = NoError
    /\ pc /= "raised"
    /\ (pc = "done" /\ ~ret.parsed) => ret = NoMatch

\* C21: with the steps of two parses on the same parser interleaved, no step
\* of either writes a field of the parser, and the anchor of a parse's handler
\* is written by that parse alone; so each parse reads what it reads when it
\* runs alone: in its first iteration a BeginEndParser searches the enabled
\* patterns the parser was initialized with.
C21_ParserFieldsReadOnly ==
    [][/\ UNCHANGED <<kind, token, between_content, self_apl, self_patterns>>
       /\ other' /= other =>
             UNCHANGED <<anchor, boundary, pc, patterns, current, ret, mid_elements>>
       /\ anchor' /= anchor => (pc = "start" /\ kind = "Token")
       /\ (kind = "BeginEnd" /\ pc = "start" /\ pc' = "be_while") =>
             patterns' = SelectSeq(PatternsOf(kind), NotDisabled)]_vars

C21_Witness ==
    /\ kind = "BeginEnd"
    /\ pc = "be_decide"
    /\ iter = 1
    /\ other = "later"
    /\ \E i \in 1..Len(calls) : anchored(calls[i].parser) /\ calls[i].parsed

\* C22: a parse of the same text with the same initialized parser returns what
\* the first parse returned, however many parses ran before: it makes the
\* searches the first parse made, in the same order, and builds the same
\* elements from their answers.
C22_RepeatedParseEqual ==
    (replay /\ invocation > 1) =>
        /\ cursor <= Len(tape) + 1
        /\ pc = "done" => (ret = first /\ cursor = Len(tape) + 1)

C22_Witness ==
    /\ replay /\ invocation = 2
    /\ pc = "done"
    /\ ret.parsed /\ ret = first
    /\ iter = 2
    /\ mid_elements /= <<>>
    /\ \E i \in 1..Len(tape) : tape[i].q[1] = "PA"

\* C24: the elements a search returns for the capture groups are those of the
\* groups that took part in the match with a text that is not empty, in
\* ascending order of the group index, whatever the order of the captures map.
C24_GroupsInAscendingIndex ==
    (spc = "done" /\ outcome = "matched" /\ \A i \in DOMAIN parsers : parsers[i] /= 0) =>
        LET es == search_ret.elements
        IN  /\ \A i, j \in DOMAIN es : i < j => es[i].token < es[j].token
            /\ \A i \in DOMAIN es : ~NotGroup(matching.groups[es[i].token])

\* C25: a search that ends because the parser of a group with a text failed,
\* or because the regex found nothing, returns no elements and no span and
\* leaves the stream where it was when the search began.
C25_FailureRewindsStream ==
    (spc = "done" /\ outcome \in {"no match", "group failed"}) =>
        /\ search_ret = [elements |-> <<>>, span |-> None]
        /\ stream = initPos

C25_Witness ==
    /\ spc = "done"
    /\ outcome = "group failed"
    /\ groupIdx = 2
    /\ matching.start /= initPos
    /\ ~NotGroup(matching.groups[parsers[1]])
    /\ stream = initPos

\* The place of a key in the order token, begin, end, content, captures.
KeyRank(key) ==
    CASE key = "token" -> 1 [] key = "begin" -> 2 [] key = "end" -> 3
      [] key = "content" -> 4 [] key = "captures" -> 5

\* A dict and the dicts in its lists have their keys in the fixed order, a
\* content key exactly when c holds, and no list that is empty.
RECURSIVE DictAsClaimed(_, _)
DictAsClaimed(d, c) ==
    /\ \A i, j \in DOMAIN d : i < j => KeyRank(d[i][1]) < KeyRank(d[j][1])
    /\ c <=> \E i \in DOMAIN d : d[i][1] = "content"
    /\ \A i \in DOMAIN d :
          d[i][1] \in {"begin", "end", "captures"} =>
             /\ d[i][2] /= <<>>
             /\ \A k \in DOMAIN d[i][2] : DictAsClaimed(d[i][2][k], c)

\* C26: the dict to_dict returns, and every dict in it, has its keys in the
\* order token, begin, end, content, captures, has the key content unless
\* the call was given content False, in which case no dict at any depth has
\* it, and has no begin, end or captures that is empty.
C26_DictKeysAndContent ==
    to_dict_args.form /= "none" => DictAsClaimed(out_dict, to_dict_args.content)

\* Calls with keyword arguments, and print, give dicts as claimed.
KeywordCallsAsClaimed ==
    to_dict_args.form \in {"keyword", "print"} =>
        DictAsClaimed(out_dict, to_dict_args.content)

\* An element without regard to what its own lists hold.
Shallow(e) == [e EXCEPT !.captures = <<>>, !.begin = <<>>, !.end = <<>>]

\* The members of a list, each without regard to its own lists.
ShallowList(prop) == [i \in DOMAIN prop |-> Shallow(prop[i])]

\* A to_dict or print call has been made on the element.
Serialized == to_dict_args.form /= "none"

\* C27: after to_dict or print the element has the token, content and span
\* it had before the call, and its captures, begin and end lists have the
\* members they had before the call, placeholders included.
C27_SameMembersAfterCall ==
    Serialized =>
        /\ Shallow(element) = Shallow(before)
        /\ ShallowList(element.captures) = ShallowList(before.captures)
        /\ ShallowList(element.begin) = ShallowList(before.begin)
        /\ ShallowList(element.end) = ShallowList(before.end)

\* What a call does change: token, content and span are as before the call.
\* A call with parse_unparsed False given by keyword leaves the element as it
\* was at every depth.  A call with parse_unparsed true (the default, and what
\* print makes) leaves in each of captures, begin and end the members that
\* are no placeholders, in their order, and puts in the place of each
\* placeholder the elements its parse returns.
PlaceholdersReplacedElseSame ==
    Serialized =>
        /\ Shallow(element) = Shallow(before)
        /\ (to_dict_args.form = "keyword" /\ ~to_dict_args.parse_unparsed)
              => element = before
        /\ to_dict_args.parse_unparsed =>
              /\ ShallowList(element.captures)
                    = ShallowList(parsed_elements(before.captures))
              /\ ShallowList(element.begin)
                    = ShallowList(parsed_elements(before.begin))
              /\ ShallowList(element.end)
                    = ShallowList(parsed_elements(before.end))

\* A default call has been made on a block whose end list held a placeholder,
\* and the list now holds the two elements the placeholder parsed to.
PlaceholderReplaced ==
    /\ Serialized
    /\ to_dict_args.parse_unparsed
    /\ before.type = "ParsedElementBlock"
    /\ Len(before.end) = 1
    /\ before.end[1].type = "UnparsedElement"
    /\ Len(element.end) = 2
    /\ element.end = before.end[1].yields

\* The searches of one iteration of the arbitration loop have been made.
Searched == pc = "be_decide"

\* The place in calls of the end search without leading characters.
FirstEnd == CHOOSE k \in DOMAIN calls : calls[k].parser = "END" /\ ~calls[k].la

\* C31: in an iteration the inner patterns are tried before the end regex,
\* first without leading characters; the pass with leading characters (the
\* inner patterns, then the end regex) runs iff no inner pattern and no end
\* matched in the first pass, so that a match of the first pass is what the
\* iteration decides on.
C31_FirstPassThenLeadingAll ==
    Searched =>
        /\ \E k \in DOMAIN calls : calls[k].parser = "END" /\ ~calls[k].la
        /\ \A i \in 1..(FirstEnd - 1) : calls[i].parser /= "END" /\ ~calls[i].la
        /\ (Len(calls) > FirstEnd) <=> (\A i \in 1..FirstEnd : ~calls[i].parsed)
        /\ Len(calls) > FirstEnd =>
              /\ calls[Len(calls)].parser = "END"
              /\ \A i \in (FirstEnd + 1)..Len(calls) : calls[i].la
              /\ \A i \in (FirstEnd + 1)..(Len(calls) - 1) : calls[i].parser /= "END"
        /\ \A i \in DOMAIN calls : calls[i].at = passStart
        /\ \A i \in 1..FirstEnd :
              calls[i].parsed =>
                 IF calls[i].parser = "END" THEN end_span = calls[i].span
                 ELSE parsed /\ capture_span = calls[i].span
                      /\ capture_elements = calls[i].elements
                      /\ end_span = calls[FirstEnd].span

\* An iteration in which the first pass found nothing and the pass with
\* leading characters found an inner match.
C31_Witness ==
    /\ Searched
    /\ Len(calls) > FirstEnd
    /\ parsed
    /\ \E i \in (FirstEnd + 1)..Len(calls) : calls[i].parsed /\ calls[i].parser /= "END"

\* An iteration found an inner capture and no end match.
CaptureOnly == pc = "be_decide" /\ end_span = None /\ parsed

\* The cursor lines 507-539 choose; end_span' is the end match attempted at
\* the end of the capture when a newline follows it.
CursorAfterCapture ==
    IF read_length(capture_span[2]) /= NL THEN capture_span[2]
    ELSE IF end_span' /= None /\ PosLE(end_span'[2], handler_next(capture_span[2]))
         THEN capture_span[2]
         ELSE handler_next(capture_span[2])

\* C32 as stated: when only an inner capture matched, its elements are
\* appended and the next cursor is the end of the capture, or, when a newline
\* follows the capture and no end match attempted there ends at or before
\* the position after it, the position after the newline.
C32_CursorAfterCaptureOnly ==
    [][CaptureOnly =>
          /\ mid_elements' = mid_elements \o capture_elements
          /\ pc' = "be_while"
          /\ current' = CursorAfterCapture]_vars

\* C32 amended: as above, and when the flag of the iteration is set (the
\* capture came from the parser itself) the cursor is one position further.
C32_CursorAfterCaptureOnlyThenStep ==
    [][CaptureOnly =>
          /\ mid_elements' = mid_elements \o capture_elements
          /\ pc' = "be_while"
          /\ current' = (IF apl THEN handler_next(CursorAfterCapture)
                         ELSE CursorAfterCapture)]_vars

\* A newline followed the capture, no end match was close enough and the
\* cursor skipped the newline.
C32_Witness ==
    /\ pc = "be_while"
    /\ branch = "capture, newline"
    /\ ~apl
    /\ end_span = None
    /\ current = handler_next(capture_span[2])
    /\ current /= capture_span[2]
    /\ mid_elements /= <<>>

\* An iteration found no inner capture and no end match in either pass.
NothingMatched ==
    /\ pc = "be_decide" /\ end_span = None /\ ~parsed
    /\ \E i \in DOMAIN calls : calls[i].la

\* The rest of the line at the cursor has a character that is no whitespace.
NonBlank == \E i \in DOMAIN read_line(current) : read_line(current)[i] \notin {" ", NL}

\* C33: when neither an inner pattern nor the end matched in both passes, no
\* element is appended, current moves to the start of the next line, and a
\* warning is emitted iff the rest of the current line is not blank.
C33_SkipLine ==
    [][NothingMatched =>
          /\ mid_elements' = mid_elements
          /\ pc' = "be_while"
          /\ current' = <<current[1] + 1, 0>>
          /\ IF NonBlank THEN "no patterns found in line" \in warnings'
             ELSE warnings' = warnings]_vars

\* A line with text was skipped with a warning, nothing was appended.
C33_Witness ==
    /\ pc = "be_while"
    /\ branch = "skip line"
    /\ "no patterns found in line" \in warnings
    /\ current[2] = 0
    /\ current[1] = passStart[1] + 1
    /\ mid_elements = <<>>

\* The cursor an iteration with a capture chooses before lines 550-551.
CursorOfBranch == IF end_span = None THEN CursorAfterCapture ELSE capture_span[2]

\* C34: the flag of the iteration is reset when an iteration starts, is set
\* at the decision exactly when the inner pattern that matched in the
\* iteration is the parser running the loop, the rule's own
\* apply_end_pattern_last is never changed, and when the flag is set and the
\* iteration does not close the block, current is one position beyond the
\* cursor the iteration chose.
C34_IterationFlag ==
    [][/\ self_apl' = self_apl
       /\ (pc = "be_while" /\ pc' = "be_for1") => ~apl'
       /\ pc' = "be_decide" =>
             (apl' <=> \E i \in DOMAIN calls' :
                          calls'[i].parsed /\ calls'[i].parser = "SELF")
       /\ (pc = "be_decide" /\ parsed /\ pc' = "be_while") =>
             current' = (IF apl THEN handler_next(CursorOfBranch)
                         ELSE CursorOfBranch)]_vars

\* The parser itself matched before the end match; the loop went on one
\* position after the capture, and the rule's own flag is not set.
C34_Witness ==
    /\ pc = "be_while"
    /\ branch = "leading capture"
    /\ apl /\ ~self_apl
    /\ current = handler_next(capture_span[2])
    /\ \E i \in DOMAIN calls : calls[i].parsed /\ calls[i].parser = "SELF"

\* C35: every iteration of the arbitration loop that does not close the
\* block leaves current strictly beyond where the iteration started, also
\* when an inner pattern matched with an empty span at current; this is what
\* makes _parse terminate whatever the children and the end search return.
C35_IterationAdvances ==
    [][(pc = "be_decide" /\ pc' = "be_while") => PosLT(current, current')]_vars

\* _parse has returned a block element.
BlockReturned == pc = "done" /\ kind = "BeginEnd" /\ ret.parsed /\ EmitsOwnElement

\* C36: the end list of an emitted block holds the capture elements of the
\* end match that closed it; when the loop ran out without an accepted end
\* match the end list is empty, also when the last iteration found an end
\* match and went on with an inner capture instead.
C36_EndListOfClosingMatch ==
    BlockReturned =>
        IF branch = "exhausted" THEN ret.elements[1].end = <<>>
        ELSE ret.elements[1].end = <<Leaf("e", end_span)>>

\* The half of C36 about a block that an end match closed.
EndListWhenClosed ==
    (BlockReturned /\ branch /= "exhausted") =>
        ret.elements[1].end = <<Leaf("e", end_span)>>

\* C37: the span _parse of a begin/end rule returns starts where the begin
\* match starts and ends where the accepted end match ends, or at the boundary
\* when the loop ran out, whatever between_content is; its end lies between
\* the start of the begin match and the boundary.
C37_ReturnedSpan ==
    (pc = "done" /\ kind = "BeginEnd" /\ ret.parsed) =>
        /\ ret.span[1] = begin_span[1]
        /\ IF branch = "exhausted" THEN ret.span[2] = boundary
           ELSE \E i \in DOMAIN calls :
                   /\ calls[i].parser = "END" /\ calls[i].parsed
                   /\ \A j \in DOMAIN calls : calls[j].parser = "END" => j <= i
                   /\ ret.span[2] = calls[i].span[2]
        /\ PosLE(begin_span[1], ret.span[2])
        /\ PosLE(ret.span[2], boundary)

\* A rule with contentName closed by an end match that is not empty: the
\* content stops before the end match, the returned span after it.
C37_Witness ==
    /\ pc = "done" /\ kind = "BeginEnd" /\ ret.parsed
    /\ between_content
    /\ branch = "end"
    /\ ret.span[2] = end_span[2]
    /\ PosLT(closing, ret.span[2])
    /\ PosLT(ret.span[1], closing)

\* --------------------- sphinx_matlab: the look-behind loop of search
\* The characters of a stream.
Chars == {"a", "b", NL}

\* The contents of the StringIO given to search.
Streams == UNION { [1..n -> Chars] : n \in 1..MaxText }

\* The patterns: b, (?<=a)b and a\n.  behind is the text of a look-behind
\* group, body the text the pattern matches.
Regexes ==
    { [behind |-> <<>>, body |-> <<"b">>],
      [behind |-> <<"a">>, body |-> <<"b">>],
      [behind |-> <<>>, body |-> <<"a", NL>>] }

\* regex.search(line): the span in line of the leftmost match, None if none.
regex_search(rx, line) ==
    LET At(i) == /\ i + Len(rx.body) <= Len(line)
                 /\ SubSeq(line, i + 1, i + Len(rx.body)) = rx.body
                 /\ i >= Len(rx.behind)
                 /\ SubSeq(line, i - Len(rx.behind) + 1, i) = rx.behind
        found == { i \in 0..Len(line) : At(i) }
    IN  IF found = {} THEN None
        ELSE LET i == CHOOSE j \in found : \A k \in found : j <= k
             IN  <<i, i + Len(rx.body)>>

\* stream.seek(from); stream.read(size).
stream_read(from, size) ==
    SubSeq(text, from + 1, IF from + size <= Len(text) THEN from + size ELSE Len(text))

\* stream.seek(from); stream.readline(): up to and with the next newline.
readline(from) ==
    LET ends == { i \in (from + 1)..Len(text) : text[i] = NL }
    IN  IF ends = {} THEN SubSeq(text, from + 1, Len(text))
        ELSE SubSeq(text, from + 1, CHOOSE i \in ends : \A k \in ends : i <= k)

\* [line + "\n" for line in s.split("\n")].
RECURSIVE split(_)
split(s) ==
    LET ends == { i \in 1..Len(s) : s[i] = NL }
    IN  IF ends = {} THEN <<s \o <<NL>>>>
        ELSE LET i == CHOOSE j \in ends : \A k \in ends : j <= k
             IN  <<SubSeq(s, 1, i)>> \o split(SubSeq(s, i + 1, Len(s)))

\* linePos += len(line) of the lines before the k-th.
RECURSIVE linePos(_, _)
linePos(ls, k) == IF k <= 1 THEN 0 ELSE linePos(ls, k - 1) + Len(ls[k - 1])

\* stream_read_pos(stream, start, end) (lines 87-92).
stream_read_pos(start, end) == stream_read(start, end - start)

\* matchingToStreamPos (lines 382 and 390).
matchingToStreamPos(size, pos, lb) ==
    IF size /= 0 THEN pos + initPos - lb ELSE initPos + lb

\* The state at the entry of search with no parsers (line 359-361).
InitSpan ==
    /\ ParseIdle
    /\ InitializeIdle
    /\ RepositoryIdle
    /\ ElementIdle
    /\ StoreIdle
    /\ LoopsIdle
    /\ text \in Streams
    /\ regex \in Regexes
    /\ readSize \in 0..MaxRead
    /\ stream \in 0..Len(text)
    /\ initPos = stream
    /\ lookbehind = 0
    /\ streamCanLookbehind = TRUE
    /\ parsers = <<>>
    /\ matching = NoMatching
    /\ groupIdx = 1
    /\ search_elements = <<>>
    /\ search_ret = NotReturned
    /\ spc = "lookbehind"
    /\ outcome = "none"

\* Lines 363-401: the test of the while loop and one round of it, with the
\* else of the loop and the statements after the break.
Lookbehind ==
    /\ spc = "lookbehind"
    /\ IF ~(lookbehind <= REGEX_LOOKBEHIND_MAX /\ streamCanLookbehind)
       THEN /\ stream' = initPos
            /\ search_ret' = [elements |-> <<>>, span |-> None]
            /\ outcome' = "no match"
            /\ spc' = "done"
            /\ UNCHANGED <<matching, lookbehind, streamCanLookbehind>>
       ELSE LET performLookbehind == regex.behind /= <<>>
                atStart == initPos - lookbehind < 0
                lb == IF atStart THEN initPos ELSE lookbehind
                ls == IF readSize /= 0
                      THEN split(stream_read(initPos - lb, readSize + lb))
                      ELSE <<readline(initPos - lb)>>
                hits == { k \in DOMAIN ls : regex_search(regex, ls[k]) /= None }
            IN  /\ streamCanLookbehind' = (performLookbehind /\ ~atStart)
                /\ IF hits = {}
                   THEN /\ lookbehind' = lb + REGEX_LOOKBEHIND_STEP
                        /\ stream' = initPos - lb
                                     + (IF readSize /= 0
                                        THEN Len(stream_read(initPos - lb, readSize + lb))
                                        ELSE Len(readline(initPos - lb)))
                        /\ UNCHANGED <<matching, search_ret, outcome, spc>>
                   ELSE LET k == CHOOSE j \in hits : \A h \in hits : j <= h
                            m == regex_search(regex, ls[k])
                            at == matchingToStreamPos(readSize, linePos(ls, k), lb)
                        IN  /\ matching' = [found |-> TRUE, start |-> at + m[1],
                                            close |-> at + m[2], groups |-> <<>>]
                            /\ stream' = at + m[1]
                            /\ lookbehind' = lb
                            /\ spc' = "return"
                            /\ UNCHANGED <<search_ret, outcome>>
    /\ UNCHANGED <<text, regex, readSize, initPos, parsers, groupIdx, search_elements,
                   instances, PARSERSTORE, resolved, loopBE, loopPP, elemVars, parseVars,
                   initVars, repoVars>>

NextSpan ==
    \/ Lookbehind
    \/ SearchReturn

SpecSpan == InitSpan /\ [][NextSpan]_vars

SpanReturned == spc = "done" /\ outcome = "matched"

\* C40: the span search returns is the place of the match in the stream, with
\* and without readSize and at every look-behind step: the stream read between
\* the returned start and end is the matched text.
C40_SpanReadsMatch ==
    SpanReturned =>
        stream_read_pos(search_ret.span[1], search_ret.span[2]) = regex.body

\* What holds: a match found without a step back and inside the text that was
\* read is where the span says.
SpanRightWithoutStepOrPadding ==
    (/\ SpanReturned
     /\ lookbehind = 0
     /\ readSize /= 0 => search_ret.span[2] <= initPos + readSize
     /\ search_ret.span[2] <= Len(text))
        => stream_read_pos(search_ret.span[1], search_ret.span[2]) = regex.body

\* A match found after a step back of the branch without readSize.
SteppedBackUnbounded == SpanReturned /\ readSize = 0 /\ lookbehind > 0

\* ------------------------------ sphinx_matlab: the class-level parser store
\* The grammar dicts parsers are made of, and the names of their rules.
Grammars == 1..2
Names == {"x", "y"}

\* cls.PARSERSTORE[callId] of get_parser (lines 70-77): the parser stored under
\* the name, 0 when IncludedParserNotFound is raised.
get_parser(callId) == PARSERSTORE[callId]

\* The class body: PARSERSTORE = {} (line 16), no parser made.
InitStore ==
    /\ ParseIdle
    /\ InitializeIdle
    /\ RepositoryIdle
    /\ SearchIdle
    /\ ElementIdle
    /\ SpanIdle
    /\ LoopsIdle
    /\ instances = <<>>
    /\ PARSERSTORE = [key \in Names |-> 0]
    /\ resolved = <<>>

\* GrammarParser(grammar, key) (lines 18-41): a parser of a rule of grammar g,
\* with the key given ("" for none) and the name its include pattern holds
\* ("" for no patterns).  With a key it is stored: self.PARSERSTORE[key] = self.
NewParser ==
    /\ Len(instances) < MaxParsers
    /\ \E g \in Grammars, key \in Names \cup {""}, include \in Names \cup {""} :
          /\ instances' = Append(instances,
                                 [grammar |-> g, key |-> key, include |-> include])
          /\ PARSERSTORE' = IF key /= ""
                            THEN [PARSERSTORE EXCEPT ![key] = Len(instances) + 1]
                            ELSE PARSERSTORE
    /\ UNCHANGED <<resolved, text, regex, readSize, lookbehind, streamCanLookbehind,
                   loopBE, loopPP, searchVars, elemVars, parseVars, initVars,
                   repoVars>>

\* parser.parse(stream) of a parser whose patterns hold an include name:
\* parsers = [self.get_parser(callId) for callId in self.patterns] (lines 159
\* and 260).
ParseInclude ==
    /\ Len(resolved) < MaxParses
    /\ \E p \in DOMAIN instances :
          /\ instances[p].include /= ""
          /\ resolved' = Append(resolved,
                                [parser |-> p, got |-> get_parser(instances[p].include)])
    /\ UNCHANGED <<instances, PARSERSTORE, text, regex, readSize, lookbehind,
                   streamCanLookbehind, loopBE, loopPP, searchVars, elemVars,
                   parseVars, initVars, repoVars>>

NextStore ==
    \/ NewParser
    \/ ParseInclude

SpecStore == InitStore /\ [][NextStore]_vars

\* C39: what an include name resolves to at parse time depends only on the
\* grammar it was declared in: two parses with the same parser resolve its
\* include to the same parser, a parser of the same grammar, whatever was
\* constructed in between.
C39_IncludeOfOwnGrammar ==
    \A i, j \in DOMAIN resolved :
        /\ resolved[i].parser = resolved[j].parser => resolved[i].got = resolved[j].got
        /\ resolved[i].got /= 0 =>
              instances[resolved[i].got].grammar = instances[resolved[i].parser].grammar

\* Two parses with one parser resolve its include to two parsers, the second
\* one constructed after the first parse.
ResolvedAnew ==
    \E i, j \in DOMAIN resolved :
        /\ i < j
        /\ resolved[i].parser = resolved[j].parser
        /\ resolved[i].got /= 0
        /\ resolved[j].got > resolved[i].got

\* What holds: a parse resolves a name to a parser constructed with that key,
\* of whatever grammar.
ResolvedToKeyHolder ==
    \A i \in DOMAIN resolved :
        resolved[i].got /= 0 =>
            instances[resolved[i].got].key = instances[resolved[i].parser].include

\* ------------------------- sphinx_matlab: the two pattern loops of parse
\* The parsers of self.patterns: the parser itself ($self) and two others.
Children == {"SELF", "A", "B"}

\* What parser.parse(stream, startPos=patternStartPos, closePos=...) of a child
\* answers: None for no match, else its span, which starts at or behind
\* patternStartPos and may end behind closePos (the child reads
\* closePos - startPos + 1 characters, lines 115 and 126).
ChildAnswers(from) ==
    {None} \cup { sp \in (0..MaxPos) \X (0..MaxPos) : from <= sp[1] /\ sp[1] <= sp[2] }

\* The locals of a loop at its entry (lines 154-161 and 253-263) in a call
\* parse(stream, startPos, closePos), closePos -1 for None: both loops start at
\* startPos and take closePos, else the end of the stream, as the suspected
\* end (midClosePos in one loop, parsedEnd in the other).
LoopEntry(ps, start, close) ==
    [startPos |-> start, closePos |-> close, parsers |-> ps,
     patternStartPos |-> start, lastPatternStartPos |-> -1,
     suspectedEnd |-> IF close /= -1 THEN close ELSE MaxPos,
     foundPatternSpan |-> [c \in Children |-> None],
     captured |-> <<>>, recursionFound |-> FALSE, reused |-> FALSE,
     status |-> "running"]

\* Prevent recursion when start end are the same as level above (lines 170
\* and 272): the parser itself is passed over.
Skipped(l, c) ==
    /\ <<l.startPos, l.closePos>> = <<l.patternStartPos, l.suspectedEnd>>
    /\ c = "SELF"

\* Use previous found match for current parser (lines 175-178 and 277-280).
Cached(l, c) ==
    /\ l.foundPatternSpan[c] /= None
    /\ l.foundPatternSpan[c][1] >= l.patternStartPos

\* The parsers whose parse is called in a round.
Asked(l) ==
    { c \in Children : /\ \E i \in DOMAIN l.parsers : l.parsers[i] = c
                       /\ ~Skipped(l, c)
                       /\ ~Cached(l, c) }

\* The test of the while loop and one round of it, on the answers ans of the
\* parsers asked.  The two bodies (lines 163-219 and 265-309) differ in the
\* names midClosePos / parsedEnd and midCaptured / captured, and in lines
\* 201-215, which only the loop of the begin/end branch has.
PatternRound(l, ans) ==
    IF l.status /= "running" THEN l
    ELSE IF \/ ~(l.patternStartPos < l.suspectedEnd)
            \/ l.patternStartPos = l.lastPatternStartPos
    THEN [l EXCEPT !.status = "stopped"]
    ELSE
    LET SpanOf(c) == IF Skipped(l, c) THEN None
                     ELSE IF Cached(l, c) THEN l.foundPatternSpan[c] ELSE ans[c]
        tried == SelectSeq(l.parsers, LAMBDA c : SpanOf(c) /= None)
        Before(a, b) == \/ a[1] < b[1]
                        \/ a[1] = b[1] /\ a[1] - a[2] < b[1] - b[2]
        best == CHOOSE i \in DOMAIN tried :
                    \A j \in DOMAIN tried :
                        /\ ~Before(SpanOf(tried[j]), SpanOf(tried[i]))
                        /\ j < i => Before(SpanOf(tried[i]), SpanOf(tried[j]))
        skips == \E i \in DOMAIN l.parsers : Skipped(l, l.parsers[i])
        after ==
            [l EXCEPT
               !.parsers = IF skips THEN SelectSeq(@, LAMBDA c : c /= "SELF") ELSE @,
               !.recursionFound = @ \/ skips,
               !.reused = @ \/ \E i \in DOMAIN l.parsers :
                                  ~Skipped(l, l.parsers[i]) /\ Cached(l, l.parsers[i]),
               !.foundPatternSpan =
                   [c \in Children |->
                      IF c \in Asked(l) /\ ans[c] /= None THEN ans[c] ELSE @[c]]]
    IN  IF tried = <<>> THEN [after EXCEPT !.status = "stopped"]
        ELSE IF SpanOf(tried[best])[1] <= l.suspectedEnd
        THEN [after EXCEPT
                !.captured = Append(@, [parser |-> tried[best],
                                        span |-> SpanOf(tried[best])]),
                !.lastPatternStartPos = l.patternStartPos,
                !.patternStartPos = SpanOf(tried[best])[2]]
        ELSE [after EXCEPT !.status = "stopped"]

\* if patternStartPos > midClosePos, with the end itself taken as invalid.
EndInvalid_AtEnd(l) == l.patternStartPos >= l.suspectedEnd

\* if patternStartPos > midClosePos (line 201): the suspected end is invalid.
EndInvalid(l) == l.patternStartPos > l.suspectedEnd

\* Lines 203-215: the end searched again from patternStartPos, where the
\* stream is; endAt is where it starts, -1 when there is none and parse
\* returns False, [], None.
SearchEnd(l, endAt) ==
    IF endAt = -1 THEN [l EXCEPT !.status = "failed"]
    ELSE [l EXCEPT !.suspectedEnd = endAt]

\* The two loops at their entry, with the same parsers and the same bounds.
InitLoops ==
    /\ ParseIdle
    /\ InitializeIdle
    /\ RepositoryIdle
    /\ SearchIdle
    /\ ElementIdle
    /\ SpanIdle
    /\ StoreIdle
    /\ \E n \in 1..Cardinality(Children) : \E ps \in [1..n -> Children] :
       \E start \in 0..MaxPos : \E close \in {-1} \cup (start..MaxPos) :
          /\ \A i, j \in 1..n : i /= j => ps[i] /= ps[j]
          /\ loopBE = LoopEntry(ps, start, close)
          /\ loopPP = LoopEntry(ps, start, close)

\* One round of both loops, side by side, on the same answers of the parsers
\* asked; the loop of the begin/end branch then searches a new end when the
\* match it appended made the suspected end invalid.
Round ==
    /\ loopBE.status = "running" \/ loopPP.status = "running"
    /\ LET l == IF loopBE.status = "running" THEN loopBE ELSE loopPP IN
       \E ans \in [Asked(l) -> ChildAnswers(l.patternStartPos)] :
          \E be \in {PatternRound(loopBE, ans)} :
          /\ loopPP' = PatternRound(loopPP, ans)
          /\ IF Len(be.captured) > Len(loopBE.captured) /\ EndInvalid(be)
             THEN \E endAt \in {-1} \cup (be.patternStartPos..MaxPos) :
                     loopBE' = SearchEnd(be, endAt)
             ELSE loopBE' = be
    /\ UNCHANGED <<text, regex, readSize, lookbehind, streamCanLookbehind, instances,
                   PARSERSTORE, resolved, searchVars, elemVars, parseVars, initVars,
                   repoVars>>

SpecLoops == InitLoops /\ [][Round]_vars

\* What the claim compares: the parsers left after the skip of the parser
\* itself, the matches kept and reused, the matches appended, and the position
\* and state the loops are in.
Compared(l) ==
    <<l.parsers, l.recursionFound, l.foundPatternSpan, l.reused, l.captured,
      l.patternStartPos, l.status>>

\* An appended match of a child ends behind the suspected end.
EndCrossed ==
    \E i \in DOMAIN loopPP.captured :
        loopPP.captured[i].span[2] > loopPP.suspectedEnd

IsPrefix(a, b) == Len(a) <= Len(b) /\ SubSeq(b, 1, Len(a)) = a

\* C38: the two pattern loops are equivalent: given the same parsers, the
\* same answers and the same bounds they skip the same self-recursive child,
\* reuse the same kept matches, append the same matches and stop at the same
\* position.
C38_LoopsEquivalent == Compared(loopBE) = Compared(loopPP)

\* C38, amended: the loops are equivalent as long as no appended match ends
\* behind the suspected end.  When one does, the loop of the patterns branch
\* stops at the end of that match, and the loop of the begin/end branch
\* searches a new end: it fails, or goes on from what the other loop appended.
C38_LoopsEquivalentUntilEndCrossed ==
    /\ ~EndCrossed => Compared(loopBE) = Compared(loopPP)
    /\ EndCrossed =>
          /\ loopPP.captured[Len(loopPP.captured)].span[2] > loopPP.suspectedEnd
          /\ loopPP.patternStartPos = loopPP.captured[Len(loopPP.captured)].span[2]
          /\ IsPrefix(loopPP.captured, loopBE.captured)
          /\ loopBE.status = "failed" \/ loopBE.suspectedEnd >= loopPP.patternStartPos

\* Both loops have stopped after skipping the parser itself, reusing a kept
\* match and appending two matches.
C38_Witness ==
    /\ loopBE.status = "stopped"
    /\ loopPP.status = "stopped"
    /\ ~EndCrossed
    /\ loopPP.recursionFound
    /\ loopPP.reused
    /\ Len(loopPP.captured) >= 2

\* The begin/end loop went on behind the place the other loop stopped at.
WentOnBehindEnd ==
    /\ EndCrossed
    /\ loopPP.status = "stopped"
    /\ Len(loopBE.captured) > Len(loopPP.captured)

====
